---- MODULE Spec2Model ----
(***************************************************************************)
(* NEONFLOW judgment engine (components/GameCanvas.tsx, second revision in *)
(* src/unnamed/part_000, lines 617-1420).                                  *)
(*                                                                         *)
(* Units.  Times are integers in centiseconds (10 ms): every timing        *)
(* constant of the engine (0.050, 0.100, 0.120, 2.0 s) is a multiple.      *)
(* score is kept in fifths of a point, so that the tap increment           *)
(* base * (1 + min(combo,100)/50) and the hold increment                   *)
(* 20 * (1 + min(combo,100)/100) are both integers.                        *)
(***************************************************************************)
EXTENDS Integers, Sequences, FiniteSets, TLC

VARIABLES
    status,         \* GameStatus seen by the mounted GameCanvas
    chart,          \* template: [notes, duration] handed to GameCanvas (props)
    audioOffset,    \* prop audioOffset, in centiseconds
    now,            \* audioContextRef.current.currentTime
    startTime,      \* startTimeRef.current
    notes,          \* notesRef.current (session copy)
    score,          \* scoreRef.current
    keyState,       \* keyStateRef.current
    touchDown,      \* touch identifiers currently on the screen (browser)
    activeTouches,  \* activeTouchesRef.current : touch id -> lane, -1 or Absent
    onTime,         \* history: notes hit by a press at exactly note.time
    audio,          \* sourceRef / audioContextRef / requestRef, with the calls
                    \* the session's source node and context have received
    emitted,        \* onGameEnd calls of the session and the GameResult built
    gen,            \* one generateBeatmap call: arguments, locals, return value
    countdown,      \* App state countdown
    dsp             \* the detection loops of two analyzeAudioDSP calls

vars == <<status, chart, audioOffset, now, startTime, notes, score,
          keyState, touchDown, activeTouches, onTime, audio, emitted, gen,
          countdown, dsp>>

----------------------------------------------------------------------------
(* Program constants *)

HIT_WINDOW_PERFECT == 5
HIT_WINDOW_GOOD == 12
HIT_WINDOW_CATCH == 10
SCORE_BASE_PERFECT == 1000
SCORE_BASE_GOOD == 500
SCORE_HOLD_TICK == 20
LEAD_IN_TIME == 200

(* Bounds of the model *)

MaxAdvance == 2      \* largest clock advance observed between two handlers
MaxOverrun == 1      \* how long handlers may still run after the track ended
MaxStartCombo == 100 \* largest combo a mid-session start of SpecCombo begins with

Absent == -2         \* Map.get(id) === undefined
TouchIds == {1, 2}    \* touch identifiers of the touch-only sessions
MixedTouchIds == {1}  \* touch identifiers of the sessions that also use keys
AudioOffsets == {0, 3}

\* gen while no chart is being generated
NotGenerating == [phase |-> "none"]

\* dsp while no audio is being analysed
NotAnalyzing == [phase |-> "none"]

----------------------------------------------------------------------------
(* Notes and charts *)

NewNote(t, l, d, ty) ==
    [time |-> t, lane |-> l, hit |-> FALSE, visible |-> TRUE,
     duration |-> d, isHolding |-> FALSE, type |-> ty]

\* Template charts, in the order the generator emits notes (by time).
Charts ==
    { [notes |-> << NewNote(0, 0, 0, "NORMAL"), NewNote(8, 0, 0, "NORMAL"),
                    NewNote(16, 1, 0, "CATCH") >>, duration |-> 30],
      [notes |-> << NewNote(0, 0, 0, "NORMAL"), NewNote(8, 1, 0, "CATCH"),
                    NewNote(8, 0, 0, "CATCH") >>, duration |-> 25],
      [notes |-> << NewNote(0, 0, 10, "NORMAL") >>, duration |-> 20] }

\* Two hold notes of one lane whose hit windows overlap.
HoldCharts ==
    { [notes |-> << NewNote(0, 0, 3, "NORMAL"), NewNote(8, 0, 3, "NORMAL") >>,
       duration |-> 15] }

\* Two hold notes of lane 0 whose hit windows overlap; a hold note of lane 0
\* and a tap of lane 1.
TouchCharts ==
    { [notes |-> << NewNote(0, 0, 1, "NORMAL"), NewNote(4, 0, 1, "NORMAL") >>,
       duration |-> 8],
      [notes |-> << NewNote(0, 0, 2, "NORMAL"), NewNote(4, 1, 0, "NORMAL") >>,
       duration |-> 8] }

\* An imported chart with a note of lane 7: the lane count inferred is 6.
ImportCharts ==
    { [notes |-> << NewNote(0, 0, 0, "NORMAL"), NewNote(4, 7, 0, "NORMAL") >>,
       duration |-> 8] }

\* The last two notes of a long chart, two hold notes that overlap in time.
HoldTailChart ==
    [notes |-> << NewNote(0, 0, 4, "NORMAL"), NewNote(2, 1, 4, "NORMAL") >>,
     duration |-> 10]

\* The last two notes of a long chart whose earlier notes are resolved.
TailChart ==
    [notes |-> << NewNote(0, 0, 0, "NORMAL"), NewNote(20, 1, 0, "CATCH") >>,
     duration |-> 34]

Abs(x) == IF x < 0 THEN -x ELSE x
Min(a, b) == IF a < b THEN a ELSE b

RECURSIVE MaxLane(_, _)
MaxLane(ns, i) ==
    IF i > Len(ns) THEN 0
    ELSE LET m == MaxLane(ns, i + 1) IN IF ns[i].lane > m THEN ns[i].lane ELSE m

LaneCount(ns) == IF MaxLane(ns, 1) > 3 THEN 6 ELSE 4

\* lanes the modelled player types or touches: those of the playfield that
\* carry notes (a key or a touch position maps to a lane below the lane count)
InputLanes ==
    {l \in 0 .. LaneCount(chart.notes) - 1 :
        \E i \in DOMAIN chart.notes : chart.notes[i].lane = l}


ZeroScore == [score |-> 0, combo |-> 0, maxCombo |-> 0,
              perfect |-> 0, good |-> 0, miss |-> 0]

----------------------------------------------------------------------------
(* Game logic *)

\* variant: the audio offset is left out
GameTime_NoOffset(t) == t - startTime

\* gameTime of processHit and of gameLoop at audio clock t
GameTime(t) == (t - startTime) - audioOffset

\* variant: the combo multiplier is not capped
HitScore_Uncapped(base, combo) == 5 * base + (base * combo) \div 10

\* base * (1 + min(combo,100)/50), in fifths of a point
HitScore(base, combo) == 5 * base + (base * Min(combo, 100)) \div 10

\* variant: the hold tick multiplier is not capped
HoldTickScore_Uncapped(combo) ==
    5 * SCORE_HOLD_TICK + (SCORE_HOLD_TICK * combo) \div 20

\* SCORE_HOLD_TICK * (1 + min(combo,100)/100), in fifths of a point
HoldTickScore(combo) ==
    5 * SCORE_HOLD_TICK + (SCORE_HOLD_TICK * Min(combo, 100)) \div 20

\* combo++, maxCombo = max(maxCombo, combo), score += HitScore(base, combo)
ComboUp(sc, base) ==
    LET c == sc.combo + 1 IN
    [sc EXCEPT !.combo = c,
               !.maxCombo = IF c > sc.maxCombo THEN c ELSE sc.maxCombo,
               !.score = sc.score + HitScore(base, c)]

\* the predicate of notesRef.current.find in processHit
Hittable(n, lane, g) ==
    /\ ~n.hit
    /\ n.lane = lane
    /\ n.type = "NORMAL"
    /\ Abs(g - n.time) < HIT_WINDOW_GOOD

\* variants of the find: the last match, a match of any type
FindHitNote_Last(ns, lane, g, i) ==
    LET S == {j \in i .. Len(ns) : Hittable(ns[j], lane, g)} IN
    IF S = {} THEN 0 ELSE CHOOSE j \in S : \A k \in S : k <= j

FindHitNote_AnyType(ns, lane, g, i) ==
    LET S == {j \in i .. Len(ns) :
                /\ ~ns[j].hit /\ ns[j].lane = lane
                /\ Abs(g - ns[j].time) < HIT_WINDOW_GOOD} IN
    IF S = {} THEN 0 ELSE CHOOSE j \in S : \A k \in S : j <= k

\* Array.prototype.find: index of the first match from i on, 0 if none
RECURSIVE FindHitNote(_, _, _, _)
FindHitNote(ns, lane, g, i) ==
    IF i > Len(ns) THEN 0
    ELSE IF Hittable(ns[i], lane, g) THEN i
         ELSE FindHitNote(ns, lane, g, i + 1)

IsPerfect(diff) == diff < HIT_WINDOW_PERFECT

processHit(st, lane, g) ==
    LET i == FindHitNote(st.notes, lane, g, 1) IN
    IF i = 0 THEN st
    ELSE
      LET n == st.notes[i]
          isPerfect == IsPerfect(Abs(g - n.time))
          sc1 == IF isPerfect THEN [st.score EXCEPT !.perfect = @ + 1]
                              ELSE [st.score EXCEPT !.good = @ + 1]
          n1 == IF n.duration > 0
                THEN [n EXCEPT !.hit = TRUE, !.isHolding = TRUE]
                ELSE [n EXCEPT !.hit = TRUE, !.visible = FALSE]
      IN [notes |-> [st.notes EXCEPT ![i] = n1],
          score |-> ComboUp(sc1, IF isPerfect THEN SCORE_BASE_PERFECT
                                              ELSE SCORE_BASE_GOOD)]

RECURSIVE FindHolding(_, _, _)
FindHolding(ns, lane, i) ==
    IF i > Len(ns) THEN 0
    ELSE IF ns[i].lane = lane /\ ns[i].isHolding THEN i
         ELSE FindHolding(ns, lane, i + 1)

\* variant: an early release reopens the note
processRelease_Reopen(ns, lane) ==
    LET i == FindHolding(ns, lane, 1) IN
    IF i = 0 THEN ns ELSE [ns EXCEPT ![i].isHolding = FALSE, ![i].hit = FALSE]

processRelease(ns, lane) ==
    LET i == FindHolding(ns, lane, 1) IN
    IF i = 0 THEN ns ELSE [ns EXCEPT ![i].isHolding = FALSE]

Held(keys, lane) == lane \in DOMAIN keys /\ keys[lane]

\* variant: a CATCH note resolves in its window whether or not the lane is held
CatchBlock_NoHold(st, i, g, keys) ==
    LET n == st.notes[i] IN
    IF /\ n.type = "CATCH" /\ ~n.hit
       /\ Abs(g - n.time) <= HIT_WINDOW_CATCH
    THEN [notes |-> [st.notes EXCEPT ![i].hit = TRUE, ![i].visible = FALSE],
          score |-> ComboUp([st.score EXCEPT !.perfect = @ + 1],
                            SCORE_BASE_PERFECT)]
    ELSE st

\* gameLoop, CATCH auto-hit logic for the note at index i
CatchBlock(st, i, g, keys) ==
    LET n == st.notes[i] IN
    IF /\ n.type = "CATCH" /\ ~n.hit
       /\ Abs(g - n.time) <= HIT_WINDOW_CATCH
       /\ Held(keys, n.lane)
    THEN [notes |-> [st.notes EXCEPT ![i].hit = TRUE, ![i].visible = FALSE],
          score |-> ComboUp([st.score EXCEPT !.perfect = @ + 1],
                            SCORE_BASE_PERFECT)]
    ELSE st

\* variants: the miss keeps the combo; the miss does not look at the hit flag
MissBlock_KeepCombo(st, i, g) ==
    LET n == st.notes[i] IN
    IF ~n.hit /\ g > n.time + HIT_WINDOW_GOOD
    THEN [notes |-> [st.notes EXCEPT ![i].visible = FALSE, ![i].hit = TRUE],
          score |-> [st.score EXCEPT !.miss = @ + 1]]
    ELSE st

MissBlock_NoHitCheck(st, i, g) ==
    LET n == st.notes[i] IN
    IF g > n.time + HIT_WINDOW_GOOD
    THEN [notes |-> [st.notes EXCEPT ![i].visible = FALSE, ![i].hit = TRUE],
          score |-> [st.score EXCEPT !.miss = @ + 1, !.combo = 0]]
    ELSE st

\* gameLoop, MISS block for the note at index i
MissBlock(st, i, g) ==
    LET n == st.notes[i] IN
    IF ~n.hit /\ g > n.time + HIT_WINDOW_GOOD
    THEN [notes |-> [st.notes EXCEPT ![i].visible = FALSE, ![i].hit = TRUE],
          score |-> [st.score EXCEPT !.miss = @ + 1, !.combo = 0]]
    ELSE st

\* gameLoop, HOLD tick for the note at index i
HoldBlock(st, i, g) ==
    LET n == st.notes[i] IN
    IF n.hit /\ n.duration > 0 /\ n.isHolding
    THEN IF g < n.time + n.duration
         THEN [st EXCEPT !.score.score = @ + HoldTickScore(st.score.combo)]
         ELSE [st EXCEPT !.notes[i].visible = FALSE, !.notes[i].isHolding = FALSE]
    ELSE st

\* body of notesRef.current.forEach in gameLoop, for the note at index i
NoteStep(st, i, g, keys) ==
    IF ~st.notes[i].visible THEN st
    ELSE HoldBlock(MissBlock(CatchBlock(st, i, g, keys), i, g), i, g)

\* notesRef.current.forEach, from index i on
RECURSIVE gameLoop(_, _, _, _)
gameLoop(st, i, g, keys) ==
    IF i > Len(st.notes) THEN st
    ELSE gameLoop(NoteStep(st, i, g, keys), i + 1, g, keys)

----------------------------------------------------------------------------
(* Session lifecycle *)

EndTime == startTime + chart.duration

\* playMusic and requestAnimationFrame(gameLoop): source and context exist,
\* the loop is scheduled; stops, closes and calls count source.stop(),
\* ctx.close() and stopMusic() since then
AudioStarted == [source |-> TRUE, ctx |-> TRUE, loop |-> TRUE,
                 stops |-> 0, closes |-> 0, calls |-> 0]

NothingEmitted == [count |-> 0, result |-> <<>>]

\* variant: stopMusic leaves the refs in place
stopMusic_KeepRefs(a) ==
    [a EXCEPT !.stops = IF a.source THEN @ + 1 ELSE @,
              !.closes = IF a.ctx THEN @ + 1 ELSE @,
              !.calls = @ + 1]

\* stopMusic: stop and forget the source, close and forget the context
stopMusic(a) ==
    [a EXCEPT !.stops = IF a.source THEN @ + 1 ELSE @,
              !.source = FALSE,
              !.closes = IF a.ctx THEN @ + 1 ELSE @,
              !.ctx = FALSE,
              !.calls = @ + 1]

\* cleanup of useEffect([status]): cancelAnimationFrame, then stopMusic
Cleanup(a) == stopMusic([a EXCEPT !.loop = FALSE])

\* variant: the result rounds the score up
GameResult_Ceil(sc) ==
    << [score |-> (sc.score + 4) \div 5, maxCombo |-> sc.maxCombo,
        perfect |-> sc.perfect, good |-> sc.good, miss |-> sc.miss] >>

\* handleGameEnd, newResult: Math.floor of the score, which the model keeps
\* in fifths of a point
GameResult(sc) ==
    << [score |-> sc.score \div 5, maxCombo |-> sc.maxCombo,
        perfect |-> sc.perfect, good |-> sc.good, miss |-> sc.miss] >>

\* useEffect([status]) with status = Playing, then playMusic
SessionStart(c, off) ==
    /\ status' = "Playing"
    /\ chart' = c
    /\ audioOffset' = off
    /\ now' = 0
    /\ startTime' = 0 + LEAD_IN_TIME
    /\ notes' = c.notes
    /\ score' = ZeroScore
    /\ keyState' = [l \in 0 .. LaneCount(c.notes) - 1 |-> FALSE]
    /\ touchDown' = touchDown
    /\ activeTouches' = [t \in TouchIds |-> Absent]
    /\ onTime' = {}
    /\ audio' = AudioStarted
    /\ emitted' = NothingEmitted
    /\ UNCHANGED <<gen, countdown, dsp>>

InitOn(cs, offs) ==
    \E c \in cs, off \in offs :
        /\ status = "Playing"
        /\ chart = c
        /\ audioOffset = off
        /\ now = 0
        /\ startTime = 0 + LEAD_IN_TIME
        /\ notes = c.notes
        /\ score = ZeroScore
        /\ keyState = [l \in 0 .. LaneCount(c.notes) - 1 |-> FALSE]
        /\ touchDown = {}
        /\ activeTouches = [t \in TouchIds |-> Absent]
        /\ onTime = {}
        /\ audio = AudioStarted
        /\ emitted = NothingEmitted
        /\ gen = NotGenerating
        /\ countdown = 0
        /\ dsp = NotAnalyzing

Init == InitOn(Charts, AudioOffsets)

InitHolds == InitOn(HoldCharts, {0})

\* variant: handlers and frames run whatever the status
Clock_AnyStatus(d) ==
    /\ now + d <= EndTime + MaxOverrun
    /\ now' = now + d

\* the audio clock moves on by d before the next handler runs
Clock(d) ==
    /\ status = "Playing"
    /\ now + d <= EndTime + MaxOverrun
    /\ now' = now + d

Cur == [keys |-> keyState, notes |-> notes, score |-> score]

Apply(st) == keyState' = st.keys /\ notes' = st.notes /\ score' = st.score

\* history: the note a press of lane at game time g hits, if it is dead on time
Punctual(lane, g) ==
    LET i == FindHitNote(notes, lane, g, 1) IN
    IF i # 0 /\ notes[i].time = g THEN {i} ELSE {}

InRange(lane) == lane >= 0 /\ lane < LaneCount(chart.notes)

\* engageLane: force the key state on and trigger a hit
engageLane(st, lane, g) ==
    IF ~InRange(lane) THEN st
    ELSE LET r == processHit([notes |-> st.notes, score |-> st.score], lane, g)
         IN [keys |-> [st.keys EXCEPT ![lane] = TRUE],
             notes |-> r.notes, score |-> r.score]

StillHeld(touches, lane) == \E t \in TouchIds : touches[t] = lane

\* variant: the lane is released without looking at the other touches
disengageLane_Always(st, lane, touches) ==
    IF ~InRange(lane) THEN st
    ELSE [keys |-> [st.keys EXCEPT ![lane] = FALSE],
          notes |-> processRelease(st.notes, lane), score |-> st.score]

\* disengageLane: release only if no tracked touch maps to the lane any more
disengageLane(st, lane, touches) ==
    IF ~InRange(lane) THEN st
    ELSE IF StillHeld(touches, lane) THEN st
    ELSE [keys |-> [st.keys EXCEPT ![lane] = FALSE],
          notes |-> processRelease(st.notes, lane), score |-> st.score]

handleKeyDown(d, k) ==
    /\ Clock(d)
    /\ UNCHANGED <<audio, emitted, gen, countdown, dsp>>
    /\ k \in DOMAIN keyState /\ ~keyState[k]
    /\ LET r == processHit([notes |-> notes, score |-> score], k, GameTime(now + d))
       IN Apply([keys |-> [keyState EXCEPT ![k] = TRUE],
                 notes |-> r.notes, score |-> r.score])
    /\ onTime' = onTime \cup Punctual(k, GameTime(now + d))
    /\ UNCHANGED <<status, chart, audioOffset, startTime, touchDown, activeTouches>>

handleKeyUp(d, k) ==
    /\ Clock(d)
    /\ UNCHANGED <<audio, emitted, gen, countdown, dsp>>
    /\ k \in DOMAIN keyState
    /\ keyState' = [keyState EXCEPT ![k] = FALSE]
    /\ notes' = processRelease(notes, k)
    /\ UNCHANGED <<status, chart, audioOffset, startTime, score, touchDown,
                   activeTouches, onTime>>

\* handleGlobalTouch, one changed touch of a touchstart event
touchstart(d, id, lane) ==
    /\ Clock(d)
    /\ UNCHANGED <<audio, emitted, gen, countdown, dsp>>
    /\ id \notin touchDown
    /\ touchDown' = touchDown \cup {id}
    /\ IF lane # -1
       THEN /\ activeTouches' = [activeTouches EXCEPT ![id] = lane]
            /\ Apply(engageLane(Cur, lane, GameTime(now + d)))
            /\ onTime' = onTime \cup Punctual(lane, GameTime(now + d))
       ELSE UNCHANGED <<activeTouches, keyState, notes, score, onTime>>
    /\ UNCHANGED <<status, chart, audioOffset, startTime>>

\* handleGlobalTouch, one changed touch of a touchmove event
touchmove(d, id, lane) ==
    /\ Clock(d)
    /\ UNCHANGED <<audio, emitted, gen, countdown, dsp>>
    /\ id \in touchDown
    /\ LET oldLane == activeTouches[id]
           touches == [activeTouches EXCEPT ![id] = lane]
           leaves == oldLane # Absent /\ oldLane # -1
           s1 == IF leaves THEN disengageLane(Cur, oldLane, touches) ELSE Cur
           s2 == IF lane # -1 THEN engageLane(s1, lane, GameTime(now + d)) ELSE s1
       IN IF lane # oldLane
          THEN /\ activeTouches' = touches
               /\ Apply(s2)
               /\ onTime' = onTime \cup
                     (IF lane # -1 THEN Punctual(lane, GameTime(now + d)) ELSE {})
          ELSE UNCHANGED <<activeTouches, keyState, notes, score, onTime>>
    /\ UNCHANGED <<status, chart, audioOffset, startTime, touchDown>>

\* handleGlobalTouch, one changed touch of a touchend or touchcancel event
touchend(d, id) ==
    /\ Clock(d)
    /\ UNCHANGED <<audio, emitted, gen, countdown, dsp>>
    /\ id \in touchDown
    /\ touchDown' = touchDown \ {id}
    /\ LET oldLane == activeTouches[id]
           touches == [activeTouches EXCEPT ![id] = Absent]
           leaves == oldLane # Absent /\ oldLane # -1
       IN /\ activeTouches' = touches
          /\ IF leaves
             THEN Apply(disengageLane(Cur, oldLane, touches))
             ELSE UNCHANGED <<keyState, notes, score>>
    /\ UNCHANGED <<status, chart, audioOffset, startTime, onTime>>

\* one animation frame: the notes processing of gameLoop
Tick(d) ==
    /\ Clock(d)
    /\ UNCHANGED <<audio, emitted, gen, countdown, dsp>>
    /\ d >= 1
    /\ LET r == gameLoop([notes |-> notes, score |-> score], 1,
                         GameTime(now + d), keyState)
       IN notes' = r.notes /\ score' = r.score
    /\ UNCHANGED <<status, chart, audioOffset, startTime, keyState, touchDown,
                   activeTouches, onTime>>

\* source.onended -> onGameEnd(scoreRef.current) -> handleGameEnd:
\* setStatus(Finished) and the GameResult; the status change runs the cleanup
\* of useEffect([status]): the loop is cancelled and the music stopped
onended ==
    /\ status = "Playing"
    /\ now >= EndTime
    /\ status' = "Finished"
    /\ emitted' = [count |-> emitted.count + 1, result |-> GameResult(score)]
    /\ audio' = Cleanup(audio)
    /\ UNCHANGED <<chart, audioOffset, now, startTime, notes, score,
                   keyState, touchDown, activeTouches, onTime, gen,
                   countdown, dsp>>

\* useEffect([status]) re-run with status # Playing in a GameCanvas that is
\* still mounted: cancelAnimationFrame and stopMusic a second time
stopAgain ==
    /\ status = "Finished"
    /\ audio.calls = 1
    /\ audio' = Cleanup(audio)
    /\ UNCHANGED <<status, chart, audioOffset, now, startTime, notes, score,
                   keyState, touchDown, activeTouches, onTime, emitted, gen,
                   countdown, dsp>>

\* variant: the new session goes on with the note array of the last one
replay_SharedNotes ==
    /\ status = "Finished"
    /\ status' = "Playing"
    /\ now' = 0
    /\ startTime' = 0 + LEAD_IN_TIME
    /\ score' = ZeroScore
    /\ keyState' = [l \in 0 .. LaneCount(chart.notes) - 1 |-> FALSE]
    /\ activeTouches' = [t \in TouchIds |-> Absent]
    /\ onTime' = {}
    /\ audio' = AudioStarted
    /\ emitted' = NothingEmitted
    /\ UNCHANGED <<gen, countdown, dsp>>
    /\ UNCHANGED <<chart, audioOffset, notes, touchDown>>

\* replay -> startCountdown -> status Playing: a new session of the same chart
replay ==
    /\ status = "Finished"
    /\ SessionStart(chart, audioOffset)

Next ==
    \/ \E d \in 0 .. MaxAdvance, k \in InputLanes : handleKeyDown(d, k)
    \/ \E d \in 0 .. MaxAdvance, k \in InputLanes : handleKeyUp(d, k)
    \/ \E d \in 0 .. MaxAdvance, id \in MixedTouchIds, l \in InputLanes \cup {-1} :
          touchstart(d, id, l)
    \/ \E d \in 0 .. MaxAdvance, id \in MixedTouchIds, l \in InputLanes \cup {-1} :
          touchmove(d, id, l)
    \/ \E d \in 0 .. MaxAdvance, id \in MixedTouchIds : touchend(d, id)
    \/ \E d \in 0 .. MaxAdvance : Tick(d)
    \/ onended
    \/ stopAgain
    \/ replay

Spec == Init /\ [][Next]_vars

SpecHolds == InitHolds /\ [][Next]_vars

\* sessions on an imported chart
InitImport == InitOn(ImportCharts, {0})

SpecImport == InitImport /\ [][Next]_vars

----------------------------------------------------------------------------
(***************************************************************************)
(* Mid-session starts.  c notes of a long chart, 20 apart, have each been *)
(* pressed dead on time (PERFECT) and released, the last of them at game   *)
(* time -20; its final two notes are still to come.  Resolved notes are    *)
(* left out of notes: gameLoop skips a hidden note, processHit a hit one   *)
(* and processRelease one that is not holding.  Used to reach combos       *)
(* around the cap of 100.                                                  *)
(***************************************************************************)

\* score after c PERFECT taps in a row from combo 0
SumPerfect(c) ==
    LET m == Min(c, 100) IN
    5 * SCORE_BASE_PERFECT * c + 50 * m * (m + 1) + 100 * 100 * (c - m)

InitCombo ==
    \E c \in (MaxStartCombo - 2) .. MaxStartCombo, off \in AudioOffsets :
        /\ status = "Playing"
        /\ chart = TailChart
        /\ audioOffset = off
        /\ startTime = 0 + LEAD_IN_TIME
        /\ now = (LEAD_IN_TIME + off) - 20
        /\ notes = TailChart.notes
        /\ score = [score |-> SumPerfect(c), combo |-> c, maxCombo |-> c,
                    perfect |-> c, good |-> 0, miss |-> 0]
        /\ keyState = [l \in 0 .. LaneCount(TailChart.notes) - 1 |-> FALSE]
        /\ touchDown = {}
        /\ activeTouches = [t \in TouchIds |-> Absent]
        /\ onTime = {}
        /\ audio = AudioStarted
        /\ emitted = NothingEmitted
        /\ gen = NotGenerating
        /\ countdown = 0
        /\ dsp = NotAnalyzing

\* the session is played to its end and not replayed from zero
NextCombo ==
    \/ \E d \in 0 .. MaxAdvance, k \in InputLanes : handleKeyDown(d, k)
    \/ \E d \in 0 .. MaxAdvance, k \in InputLanes : handleKeyUp(d, k)
    \/ \E d \in 0 .. MaxAdvance, id \in MixedTouchIds, l \in InputLanes \cup {-1} :
          touchstart(d, id, l)
    \/ \E d \in 0 .. MaxAdvance, id \in MixedTouchIds, l \in InputLanes \cup {-1} :
          touchmove(d, id, l)
    \/ \E d \in 0 .. MaxAdvance, id \in MixedTouchIds : touchend(d, id)
    \/ \E d \in 0 .. MaxAdvance : Tick(d)
    \/ onended
    \/ stopAgain

SpecCombo == InitCombo /\ [][NextCombo]_vars

\* mid-session starts before the two final hold notes
InitHoldTick ==
    \E c \in (MaxStartCombo - 2) .. MaxStartCombo :
        /\ status = "Playing"
        /\ chart = HoldTailChart
        /\ audioOffset = 0
        /\ startTime = 0 + LEAD_IN_TIME
        /\ now = LEAD_IN_TIME - 14
        /\ notes = HoldTailChart.notes
        /\ score = [score |-> SumPerfect(c), combo |-> c, maxCombo |-> c,
                    perfect |-> c, good |-> 0, miss |-> 0]
        /\ keyState = [l \in 0 .. LaneCount(HoldTailChart.notes) - 1 |-> FALSE]
        /\ touchDown = {}
        /\ activeTouches = [t \in TouchIds |-> Absent]
        /\ onTime = {}
        /\ audio = AudioStarted
        /\ emitted = NothingEmitted
        /\ gen = NotGenerating
        /\ countdown = 0
        /\ dsp = NotAnalyzing

\* a keyboard session played to its end
NextHoldTick ==
    \/ \E d \in 0 .. MaxAdvance, k \in InputLanes : handleKeyDown(d, k)
    \/ \E d \in 0 .. MaxAdvance, k \in InputLanes : handleKeyUp(d, k)
    \/ \E d \in 0 .. MaxAdvance : Tick(d)
    \/ onended
    \/ stopAgain

SpecHoldTick == InitHoldTick /\ [][NextHoldTick]_vars

----------------------------------------------------------------------------
(***************************************************************************)
(* The application around the session (src/App.tsx): a loaded song is      *)
(* Ready, startCountdown counts down from 3, the countdown effect sets     *)
(* status Playing, the end of the track sets Finished, and from there the  *)
(* song is replayed through a new countdown or left for the library.       *)
(***************************************************************************)

COUNTDOWN_FROM == 3

\* two taps, the second still in its hit window when the track ends
AppCharts ==
    { [notes |-> << NewNote(0, 0, 0, "NORMAL"), NewNote(6, 0, 0, "NORMAL") >>,
       duration |-> 10] }

\* setNotes([]), setAudioBuffer(null)
NoChart == [notes |-> << >>, duration |-> 0]

\* a GameCanvas that has not played yet: no source, no context, no loop
NoAudio == [source |-> FALSE, ctx |-> FALSE, loop |-> FALSE,
            stops |-> 0, closes |-> 0, calls |-> 0]

\* handleSelectSong has loaded a song
InitApp ==
    \E c \in AppCharts :
        /\ status = "Ready"
        /\ chart = c
        /\ audioOffset = 0
        /\ now = 0
        /\ startTime = 0
        /\ notes = << >>
        /\ score = ZeroScore
        /\ keyState = << >>
        /\ touchDown = {}
        /\ activeTouches = [t \in TouchIds |-> Absent]
        /\ onTime = {}
        /\ audio = NoAudio
        /\ emitted = NothingEmitted
        /\ gen = NotGenerating
        /\ countdown = COUNTDOWN_FROM
        /\ dsp = NotAnalyzing

\* startCountdown, from the start button, the space key or replay; the
\* stopMusic the status change runs in GameCanvas finds source and context
\* released
startCountdown ==
    /\ status \in {"Ready", "Finished"}
    /\ status' = "Countdown"
    /\ countdown' = COUNTDOWN_FROM
    /\ UNCHANGED <<chart, audioOffset, now, startTime, notes, score, keyState,
                   touchDown, activeTouches, onTime, audio, emitted, gen, dsp>>

\* countdown effect, countdown > 0: the timer fires, setCountdown(c => c - 1)
countdownTimer ==
    /\ status = "Countdown"
    /\ countdown > 0
    /\ countdown' = countdown - 1
    /\ UNCHANGED <<status, chart, audioOffset, now, startTime, notes, score,
                   keyState, touchDown, activeTouches, onTime, audio, emitted,
                   gen, dsp>>

\* countdown effect, countdown = 0: setStatus(Playing), which starts the
\* session in GameCanvas
countdownDone ==
    /\ status = "Countdown"
    /\ countdown = 0
    /\ SessionStart(chart, audioOffset)

\* handleKeyUp while no session runs: the handler does not look at status
handleKeyUpIdle(k) ==
    /\ status # "Playing"
    /\ k \in DOMAIN keyState
    /\ keyState' = [keyState EXCEPT ![k] = FALSE]
    /\ notes' = processRelease(notes, k)
    /\ UNCHANGED <<status, chart, audioOffset, now, startTime, score, touchDown,
                   activeTouches, onTime, audio, emitted, gen, countdown, dsp>>

\* the keyup listener of GameCanvas, in a session and outside of one
keyup(d, k) ==
    IF status = "Playing" THEN handleKeyUp(d, k)
    ELSE d = 0 /\ handleKeyUpIdle(k)

\* backToLibrary: the song is unloaded
backToLibrary ==
    /\ status \in {"Ready", "Finished"}
    /\ status' = "Library"
    /\ chart' = NoChart
    /\ UNCHANGED <<audioOffset, now, startTime, notes, score, keyState,
                   touchDown, activeTouches, onTime, audio, emitted, gen,
                   countdown, dsp>>

\* handleSelectSong: a song of the library is loaded
handleSelectSong ==
    /\ status = "Library"
    /\ status' = "Ready"
    /\ chart' \in AppCharts
    /\ UNCHANGED <<audioOffset, now, startTime, notes, score, keyState,
                   touchDown, activeTouches, onTime, audio, emitted, gen,
                   countdown, dsp>>

NextApp ==
    \/ startCountdown
    \/ countdownTimer
    \/ countdownDone
    \/ \E d \in 0 .. MaxAdvance, k \in InputLanes : handleKeyDown(d, k)
    \/ \E d \in 0 .. MaxAdvance, k \in InputLanes : keyup(d, k)
    \/ \E d \in 0 .. MaxAdvance : Tick(d)
    \/ onended
    \/ backToLibrary
    \/ handleSelectSong

SpecApp == InitApp /\ [][NextApp]_vars

----------------------------------------------------------------------------
(* The best result of a song of the library *)

\* the songs of the library (librarySongs), each with the best result stored
\* for it: none, or one GameResult
SavedSongs ==
    << [notes |-> << NewNote(0, 0, 0, "NORMAL"), NewNote(6, 0, 0, "NORMAL") >>,
        duration |-> 10, bestResult |-> << >>] >>

\* currentSongId: the song that handleSelectSong has loaded
currentSongId == 1

\* variant: every result is taken for better
IsBetter_Always(newResult, song) == TRUE

\* !song.bestResult || newResult.score > song.bestResult.score
IsBetter(newResult, song) ==
    \/ song.bestResult = << >>
    \/ newResult.score > song.bestResult[1].score

\* handleGameEnd, the save: saveSong({ ...song, bestResult: newResult }) and
\* loadLibrary() when the result is better, nothing otherwise
saveBest(library, id, result) ==
    IF IsBetter(result[1], library[id])
    THEN [library EXCEPT ![id].bestResult = result]
    ELSE library

\* source.onended -> onGameEnd(scoreRef.current) -> handleGameEnd, with the
\* library: setStatus(Finished), the GameResult and the save of a better one
handleGameEnd ==
    /\ status = "Playing"
    /\ now >= EndTime
    /\ status' = "Finished"
    /\ emitted' = [count |-> emitted.count + 1, result |-> GameResult(score)]
    /\ audio' = Cleanup(audio)
    /\ gen' = [gen EXCEPT !.library = saveBest(@, currentSongId, GameResult(score))]
    /\ UNCHANGED <<chart, audioOffset, now, startTime, notes, score,
                   keyState, touchDown, activeTouches, onTime,
                   countdown, dsp>>

\* handleSelectSong: the song of the library is loaded
handleSelectSaved ==
    /\ status = "Library"
    /\ status' = "Ready"
    /\ chart' = [notes |-> gen.library[currentSongId].notes,
                 duration |-> gen.library[currentSongId].duration]
    /\ UNCHANGED <<audioOffset, now, startTime, notes, score, keyState,
                   touchDown, activeTouches, onTime, audio, emitted, gen,
                   countdown, dsp>>

\* the library is open and holds a song that has not been played
InitBest ==
    /\ status = "Library"
    /\ chart = NoChart
    /\ audioOffset = 0
    /\ now = 0
    /\ startTime = 0
    /\ notes = << >>
    /\ score = ZeroScore
    /\ keyState = << >>
    /\ touchDown = {}
    /\ activeTouches = [t \in TouchIds |-> Absent]
    /\ onTime = {}
    /\ audio = NoAudio
    /\ emitted = NothingEmitted
    /\ gen = [phase |-> "saved", library |-> SavedSongs]
    /\ countdown = COUNTDOWN_FROM
    /\ dsp = NotAnalyzing

NextBest ==
    \/ handleSelectSaved
    \/ startCountdown
    \/ countdownTimer
    \/ countdownDone
    \/ \E d \in 0 .. MaxAdvance, k \in InputLanes : handleKeyDown(d, k)
    \/ \E d \in 0 .. MaxAdvance, k \in InputLanes : keyup(d, k)
    \/ \E d \in 0 .. MaxAdvance : Tick(d)
    \/ handleGameEnd
    \/ backToLibrary

SpecBest == InitBest /\ [][NextBest]_vars

----------------------------------------------------------------------------
(***************************************************************************)
(* Leaving a session that is being played.  In the App whose header stays  *)
(* on screen during play, a click on it calls backToLibrary; GameCanvas is *)
(* rendered for status Playing only, so it unmounts and its cleanup stops  *)
(* the playback source.  Stopping a source that has not ended makes it     *)
(* fire its ended event, whose handler was created by the render that      *)
(* started the music.                                                     *)
(***************************************************************************)

InitLeave == InitOn(AppCharts, {0})

\* backToLibrary while status is Playing, and the cleanup of the unmounting
\* GameCanvas: cancelAnimationFrame, stopMusic
backToLibraryInGame ==
    /\ status = "Playing"
    /\ status' = "Library"
    /\ chart' = NoChart
    /\ audio' = Cleanup(audio)
    /\ UNCHANGED <<audioOffset, now, startTime, notes, score, keyState,
                   touchDown, activeTouches, onTime, emitted, gen, countdown,
                   dsp>>

\* source.stop() was called on a source that had not ended, and its ended
\* event has not been handled yet
StopPending == audio.stops > 0 /\ emitted.count = 0

\* source.onended after source.stop(): the status of the closure is the
\* Playing of the render that called playMusic, so onGameEnd is called and
\* handleGameEnd sets status Finished
endedAfterStop ==
    /\ status # "Playing"
    /\ StopPending
    /\ status' = "Finished"
    /\ emitted' = [count |-> emitted.count + 1, result |-> GameResult(score)]
    /\ UNCHANGED <<chart, audioOffset, now, startTime, notes, score, keyState,
                   touchDown, activeTouches, onTime, audio, gen, countdown, dsp>>

NextLeave ==
    \/ \E d \in 0 .. MaxAdvance, k \in InputLanes : handleKeyDown(d, k)
    \/ \E d \in 0 .. MaxAdvance, k \in InputLanes : handleKeyUp(d, k)
    \/ \E d \in 0 .. MaxAdvance : Tick(d)
    \/ onended
    \/ backToLibraryInGame
    \/ endedAfterStop

SpecLeave == InitLeave /\ [][NextLeave]_vars

----------------------------------------------------------------------------
(* Touch-only sessions: no keyboard, two fingers *)

InitTouch == InitOn(TouchCharts, {0})

NextTouch ==
    \/ \E d \in 0 .. MaxAdvance, id \in TouchIds, l \in InputLanes \cup {-1} :
          touchstart(d, id, l)
    \/ \E d \in 0 .. MaxAdvance, id \in TouchIds, l \in InputLanes \cup {-1} :
          touchmove(d, id, l)
    \/ \E d \in 0 .. MaxAdvance, id \in TouchIds : touchend(d, id)
    \/ \E d \in 0 .. MaxAdvance : Tick(d)
    \/ onended
    \/ stopAgain
    \/ replay

SpecTouch == InitTouch /\ [][NextTouch]_vars

----------------------------------------------------------------------------
(***************************************************************************)
(* Beatmap generator (src/utils/beatmapGenerator.ts).  Times are in        *)
(* centiseconds, energies in hundredths, intensities in tenths, chances in *)
(* per cent and threshold multipliers in thousandths.  A draw of           *)
(* Math.random() is a choice among the outcomes it can have.               *)
(***************************************************************************)

MaxFaint == 7   \* onsets of the faint run
MaxLoud == 3    \* onsets of the loud run

DETECTOR_MIN_GAP == 5   \* audioAnalyzer: least distance of two onsets
SPARSE_LIMIT == 30      \* a pass with fewer notes is retried
FALLBACK_FLOOR == 10    \* energy an onset needs in the raw fallback
DefaultSectionEnd == 60000  \* endTime of the default section

Difficulties == {"EASY", "NORMAL", "HARD", "EXPERT", "TITAN"}

DIFFICULTY_CONFIG ==
    [EASY   |-> [thresholdMultiplier |-> 2000, minGap |-> 45, streamChance |-> 0,
                 holdChance |-> 0, jumpChance |-> 0],
     NORMAL |-> [thresholdMultiplier |-> 1400, minGap |-> 25, streamChance |-> 0,
                 holdChance |-> 15, jumpChance |-> 0],
     HARD   |-> [thresholdMultiplier |-> 1000, minGap |-> 15, streamChance |-> 20,
                 holdChance |-> 25, jumpChance |-> 15],
     EXPERT |-> [thresholdMultiplier |-> 800, minGap |-> 8, streamChance |-> 50,
                 holdChance |-> 30, jumpChance |-> 35],
     TITAN  |-> [thresholdMultiplier |-> 600, minGap |-> 5, streamChance |-> 80,
                 holdChance |-> 20, jumpChance |-> 70]]

Max(a, b) == IF a > b THEN a ELSE b

Lowest(S) == CHOOSE l \in S : \A m \in S : l <= m

\* Math.random() < p / 100
Chance(p) == IF p = 0 THEN {FALSE} ELSE {TRUE, FALSE}

Onset(t, e) == [time |-> t, energy |-> e]

Section(s, e, i, st) == [startTime |-> s, endTime |-> e, intensity |-> i, style |-> st]

\* onsets as the detector emits them: in time order, DETECTOR_MIN_GAP apart
QuietOnsets == << Onset(10, 5), Onset(40, 8) >>

FaintOnsets == [i \in 1 .. MaxFaint |-> Onset(DETECTOR_MIN_GAP * (i - 1), 12)]

LoudOnsets ==
    [i \in 1 .. MaxLoud |-> Onset(20 * (i - 1), << 99, 95, 80 >>[((i - 1) % 3) + 1])]

\* two onsets around the end of the default section, ten minutes in
LateOnsets == << Onset(DefaultSectionEnd - 10, 80), Onset(DefaultSectionEnd + 20, 80) >>

OnsetLists == { << >>, QuietOnsets, FaintOnsets, LoudOnsets, LateOnsets }

\* a song of one section that asks for very few notes
CalmStructure == [bpm |-> 120, sections |-> << Section(0, 3000, 1, "simple") >>]

\* geminiService: the structure used when no analysis is available
DefaultStructure ==
    [bpm |-> 120, sections |-> << Section(0, DefaultSectionEnd, 8, "stream") >>]

Structures ==
    { CalmStructure,
      DefaultStructure,
      [bpm |-> 120, sections |-> << Section(0, 30, 9, "jump"),
                                    Section(30, 60, 5, "simple") >>],
      [bpm |-> 40, sections |-> << Section(0, 3000, 5, "hold") >>],
      [bpm |-> 200, sections |-> << Section(0, 3000, 5, "hold") >>] }

\* the faint run is analysed with the calm structure only
GenInputs ==
    { in \in [onsets : OnsetLists, structure : Structures,
              difficulty : Difficulties, laneCount : {4, 6},
              playStyle : {"THUMB", "MULTI"}] :
        in.onsets = FaintOnsets => in.structure = CalmStructure }

\* onsets.sort((a, b) => a.time - b.time)
RECURSIVE InsertByTime(_, _)
InsertByTime(s, o) ==
    IF Len(s) = 0 THEN << o >>
    ELSE IF s[Len(s)].time <= o.time THEN Append(s, o)
    ELSE Append(InsertByTime(SubSeq(s, 1, Len(s) - 1), o), s[Len(s)])

RECURSIVE SortByTime(_)
SortByTime(s) ==
    IF Len(s) = 0 THEN << >>
    ELSE InsertByTime(SortByTime(SubSeq(s, 1, Len(s) - 1)), s[Len(s)])

effectiveLaneCount(in) == IF in.difficulty = "TITAN" THEN 6 ELSE in.laneCount

\* variant: the play style asked for is not passed on
effectivePlayStyle_Multi(in) == "MULTI"

effectivePlayStyle(in) == IF in.difficulty = "TITAN" THEN "MULTI" ELSE in.playStyle

\* variant: the first section when none covers the time
RECURSIVE currentSection_First(_, _, _)
currentSection_First(secs, t, i) ==
    IF i > Len(secs) THEN secs[1]
    ELSE IF t >= secs[i].startTime /\ t < secs[i].endTime THEN secs[i]
    ELSE currentSection_First(secs, t, i + 1)

\* structure.sections.find(...) || the last section
RECURSIVE currentSection(_, _, _)
currentSection(secs, t, i) ==
    IF i > Len(secs) THEN secs[Len(secs)]
    ELSE IF t >= secs[i].startTime /\ t < secs[i].endTime THEN secs[i]
    ELSE currentSection(secs, t, i + 1)

\* onset.energy < dynamicThreshold, both sides times 10^7
BelowThreshold(onset, sec, config) ==
    onset.energy * 100000 <
        (50 + (10 - sec.intensity) * 25) * config.thresholdMultiplier
            * (IF sec.style = "simple" THEN 13 ELSE 10)

\* variant: a Titan triple is a quad whatever the energy
simNotes_QuadsAlways(onset, sec, config, laneCount, playStyle, difficulty) ==
    LET isTitan == difficulty = "TITAN"
        jumps == IF sec.style = "jump" THEN {TRUE} ELSE Chance(config.jumpChance)
        wide == (isTitan \/ (playStyle = "MULTI" /\ laneCount = 6))
                    /\ onset.energy > 90
        drawn == { IF j /\ sec.intensity > 6 /\ onset.energy > 75
                   THEN IF wide
                        THEN IF isTitan /\ r THEN 4
                             ELSE IF config.jumpChance > 30 THEN 3 ELSE 2
                        ELSE 2
                   ELSE 1 : j \in jumps, r \in BOOLEAN }
    IN { IF playStyle = "THUMB" /\ ~isTitan THEN Min(n, 2) ELSE n : n \in drawn }

\* the numbers of simultaneous notes the draws of an onset can give
simNotes(onset, sec, config, laneCount, playStyle, difficulty) ==
    LET isTitan == difficulty = "TITAN"
        jumps == IF sec.style = "jump" THEN {TRUE} ELSE Chance(config.jumpChance)
        wide == (isTitan \/ (playStyle = "MULTI" /\ laneCount = 6))
                    /\ onset.energy > 90
        drawn == { IF j /\ sec.intensity > 6 /\ onset.energy > 75
                   THEN IF wide
                        THEN IF isTitan /\ r
                             THEN (IF onset.energy > 98 THEN 4 ELSE 3)
                             ELSE IF config.jumpChance > 30 THEN 3 ELSE 2
                        ELSE 2
                   ELSE 1 : j \in jumps, r \in BOOLEAN }
    IN { IF playStyle = "THUMB" /\ ~isTitan THEN Min(n, 2) ELSE n : n \in drawn }

\* getNextLanes: the lane sets it can return (returned sorted, so that
\* lastLanes[0] is the lowest lane of the last set)
getNextLanes(count, lastLanes, laneCount, style) ==
    LET allLanes == 0 .. laneCount - 1
        last == Lowest(lastLanes)
        near == {l \in allLanes : Abs(l - last) >= 1 /\ Abs(l - last) <= 2}
        candidates == allLanes \ lastLanes
        pool == IF Cardinality(candidates) >= count THEN candidates ELSE allLanes
    IN IF count = 1
       THEN IF style = "stream"
            THEN IF near # {} THEN {{l} : l \in near}
                 ELSE {{(last + 1) % laneCount}}
            ELSE IF candidates # {} THEN {{l} : l \in candidates}
                 ELSE {{l} : l \in allLanes}
       ELSE {S \in SUBSET pool : Cardinality(S) = count}

\* variant: the duration of a hold has no upper limit
HoldDuration_NoCap(config, bpm) == Max(10, 6000 \div bpm)

\* Math.min(maxHold, Math.max(0.1, 60 / structure.bpm))
HoldDuration(config, bpm) ==
    Min(IF config.minGap > 20 THEN 50 ELSE 100, Max(10, 6000 \div bpm))

\* variant: every note of a chord is put on the lowest lane of the chord
ChordNotes_OneLane(lanes, t, d, ty) ==
    [i \in 1 .. Cardinality(lanes) |-> NewNote(t, Lowest(lanes), d, ty)]

\* lanes.forEach(lane => notes.push(...))
RECURSIVE ChordNotes(_, _, _, _)
ChordNotes(lanes, t, d, ty) ==
    IF lanes = {} THEN << >>
    ELSE LET l == Lowest(lanes)
         IN << NewNote(t, l, d, ty) >> \o ChordNotes(lanes \ {l}, t, d, ty)

\* variant: every onset is kept
LoudEnough_All(o) == TRUE

\* the filter of generateRawFallback
LoudEnough(o) == o.energy > FALLBACK_FLOOR

\* variant: the lane is the index itself
generateRawFallback_NoWrap(onsets, laneCount) ==
    LET kept == SelectSeq(onsets, LoudEnough)
    IN [idx \in 1 .. Len(kept) |-> NewNote(kept[idx].time, idx - 1, 0, "NORMAL")]

generateRawFallback(onsets, laneCount) ==
    LET kept == SelectSeq(onsets, LoudEnough)
    IN [idx \in 1 .. Len(kept) |->
            NewNote(kept[idx].time, (idx - 1) % laneCount, 0, "NORMAL")]

\* isHold: the outcomes of the hold draw
HoldDraws(sec, n, config) ==
    IF sec.style = "hold" /\ n = 1 THEN Chance(config.holdChance) ELSE {FALSE}

\* variant: any note may be drawn as a catch note
CatchDraws_AnyNote(isHold, n) == {TRUE, FALSE}

\* isCatch: the outcomes of the catch draw (its chance is never 0)
CatchDraws(isHold, n) == IF ~isHold /\ n = 1 THEN {TRUE, FALSE} ELSE {FALSE}

\* variant: the duration of a hold is not counted
NextLastTime_Start(onset, duration) == onset.time

\* lastTime after the notes of an onset are placed
NextLastTime(onset, duration) == onset.time + duration

\* the locals of runGenerationPass before its first onset
PassStart(in, config) ==
    [config |-> config, k |-> 1, notes |-> << >>,
     lastLanes |-> {effectiveLaneCount(in) \div 2}, lastTime |-> -1000]

\* generateBeatmap up to its first call of runGenerationPass
GenStart(in) ==
    [phase |-> "main", in |-> in, sorted |-> SortByTime(in.onsets),
     pass |-> PassStart(in, DIFFICULTY_CONFIG[in.difficulty]), out |-> << >>,
     rating |-> << >>, library |-> << >>, errorMessage |-> "null"]

Untouched ==
    UNCHANGED <<status, chart, audioOffset, now, startTime, notes, score,
                keyState, touchDown, activeTouches, onTime, audio, emitted,
                countdown, dsp>>

\* runGenerationPass: the callback of onsets.forEach for the next onset
runGenerationPass ==
    /\ gen.phase \in {"main", "retry"}
    /\ gen.pass.k <= Len(gen.sorted)
    /\ LET in == gen.in
           p == gen.pass
           onset == gen.sorted[p.k]
           sec == currentSection(in.structure.sections, onset.time, 1)
           laneCount == effectiveLaneCount(in)
       IN IF BelowThreshold(onset, sec, p.config)
             \/ onset.time - p.lastTime < p.config.minGap
          THEN gen' = [gen EXCEPT !.pass.k = @ + 1]
          ELSE \E n \in simNotes(onset, sec, p.config, laneCount,
                                 effectivePlayStyle(in), in.difficulty) :
               \E lanes \in getNextLanes(n, p.lastLanes, laneCount, sec.style) :
               \E isHold \in HoldDraws(sec, n, p.config) :
               \E isCatch \in CatchDraws(isHold, n) :
                  LET duration == IF isHold
                                  THEN HoldDuration(p.config, in.structure.bpm)
                                  ELSE 0
                  IN gen' = [gen EXCEPT
                        !.pass.k = @ + 1,
                        !.pass.notes = @ \o ChordNotes(lanes, onset.time, duration,
                                            IF isCatch THEN "CATCH" ELSE "NORMAL"),
                        !.pass.lastLanes = lanes,
                        !.pass.lastTime = NextLastTime(onset, duration)]
    /\ Untouched

\* generateBeatmap after a pass has returned: retry, raw fallback or return
generateBeatmap ==
    /\ gen.phase \in {"main", "retry"}
    /\ gen.pass.k > Len(gen.sorted)
    /\ LET in == gen.in
           p == gen.pass
           retryConfig == [DIFFICULTY_CONFIG[in.difficulty] EXCEPT
                               !.thresholdMultiplier = (@ * 7) \div 10]
       IN IF gen.phase = "main" /\ Len(p.notes) < SPARSE_LIMIT
                                /\ in.difficulty # "EASY"
          THEN gen' = [gen EXCEPT !.phase = "retry",
                                  !.pass = PassStart(in, retryConfig)]
          ELSE gen' = [gen EXCEPT
                  !.phase = "returned",
                  !.out = IF Len(p.notes) = 0 /\ Len(gen.sorted) > 0
                          THEN generateRawFallback(gen.sorted, effectiveLaneCount(in))
                          ELSE p.notes]
    /\ Untouched

\* Math.log2(v), v >= 1: both in thousandths, linear between powers of 2
RECURSIVE Log2(_)
Log2(v) == IF v < 2000 THEN v - 1000 ELSE 1000 + Log2(v \div 2)

\* the sliding window of calculateDifficultyRating (ns sorted by time): the
\* most notes that start within 1.0 s before a note, that note included
RECURSIVE PeakNps(_, _)
PeakNps(ns, right) ==
    IF right > Len(ns) THEN 0
    ELSE Max(Cardinality({l \in 1 .. right : ns[right].time - ns[l].time <= 100}),
             PeakNps(ns, right + 1))

\* rawScore > 10: 10 + log2(surplus + 1) * 2.5, in thousandths
Compress(rawScore) ==
    IF rawScore > 10000
    THEN 10000 + (Log2((rawScore - 10000) + 1000) * 5) \div 2
    ELSE rawScore

\* variant: no lower limit
Clamp_NoFloor(rawScore) == Min(20000, rawScore)

\* Math.max(1, Math.min(20, rawScore)), in thousandths
Clamp(rawScore) == Max(1000, Min(20000, rawScore))

\* calculateDifficultyRating(notes, duration): the level in thousandths, for
\* a duration in centiseconds
calculateDifficultyRating(ns, duration) ==
    IF Len(ns) = 0 \/ duration = 0 THEN 0
    ELSE LET sortedNotes == SortByTime(ns)
             weightedAvg == (50000 * Len(ns)) \div duration
             weightedPeak == 50 * PeakNps(sortedNotes, 1)
         IN Clamp(Compress(weightedAvg + weightedPeak))

\* buffer.duration of a track with these onsets
TrackDurations(onsets) ==
    IF Len(onsets) = 0 THEN {100}
    ELSE {onsets[Len(onsets)].time + 10}

\* variant: no chart is refused
GenerativeFailure_Never(finalNotes) == FALSE

\* if (finalNotes.length === 0) throw new Error("GenerativeFailure")
GenerativeFailure(finalNotes) == Len(finalNotes) = 0

\* handleCreateBeatmap from the return of generateBeatmap on: an empty chart
\* throws GenerativeFailure, any other is rated and saved to the library
handleCreateBeatmap ==
    /\ gen.phase = "returned"
    /\ IF GenerativeFailure(gen.out)
       THEN gen' = [gen EXCEPT !.phase = "failed",
                               !.errorMessage = "GenerativeFailure"]
       ELSE \E duration \in TrackDurations(gen.sorted) :
            \E rating \in {calculateDifficultyRating(gen.out, duration)} :
                  gen' = [gen EXCEPT
                     !.phase = "saved",
                     !.rating = << rating >>,
                     !.library = Append(@, [notes |-> gen.out, duration |-> duration,
                                            difficultyRating |-> rating,
                                            laneCount |-> effectiveLaneCount(gen.in)])]
    /\ status' = "Library"
    /\ UNCHANGED <<chart, audioOffset, now, startTime, notes, score, keyState,
                   touchDown, activeTouches, onTime, audio, emitted,
                   countdown, dsp>>

\* calculateDifficultyRating called on the chart and the duration of gen
applyRating ==
    /\ gen.phase = "rating"
    /\ gen' = [gen EXCEPT !.phase = "rated",
                          !.rating = << calculateDifficultyRating(gen.notes,
                                                                  gen.duration) >>]
    /\ Untouched
    /\ status' = status

\* no session is mounted while a chart is generated
InitGenOn(ins) ==
    /\ \E in \in ins : gen = GenStart(in)
    /\ status = "Analyzing"
    /\ chart = [notes |-> << >>, duration |-> 0]
    /\ audioOffset = 0
    /\ now = 0
    /\ startTime = 0
    /\ notes = << >>
    /\ score = ZeroScore
    /\ keyState = << >>
    /\ touchDown = {}
    /\ activeTouches = [t \in TouchIds |-> Absent]
    /\ onTime = {}
    /\ audio = [source |-> FALSE, ctx |-> FALSE, loop |-> FALSE,
                stops |-> 0, closes |-> 0, calls |-> 0]
    /\ emitted = NothingEmitted
    /\ countdown = 0
    /\ dsp = NotAnalyzing

InitGen == InitGenOn(GenInputs)

NextGen ==
    \/ runGenerationPass
    \/ generateBeatmap
    \/ handleCreateBeatmap

SpecGen == InitGen /\ [][NextGen]_vars

\* onsets whose energies are the limits of the chord sizes: 0.75, 0.9, 0.98
LimitOnsets == << Onset(0, 75), Onset(20, 90), Onset(40, 98) >>

\* songs with a jump section, intense or not, and an intense stream song
ChordStructures ==
    { [bpm |-> 120, sections |-> << Section(0, 30, 9, "jump"),
                                    Section(30, 60, 5, "simple") >>],
      [bpm |-> 120, sections |-> << Section(0, 3000, 6, "jump") >>],
      [bpm |-> 120, sections |-> << Section(0, 3000, 9, "stream") >>] }

\* the faint run is analysed with the calm structure, the others with the
\* structures that ask for chords
ChordInputs ==
    { in \in [onsets : {LoudOnsets, LimitOnsets, FaintOnsets},
              structure : ChordStructures \cup {CalmStructure},
              difficulty : Difficulties, laneCount : {4, 6},
              playStyle : {"THUMB", "MULTI"}] :
        in.onsets = FaintOnsets <=> in.structure = CalmStructure }

InitChordGen == InitGenOn(ChordInputs)

SpecChordGen == InitChordGen /\ [][NextGen]_vars

\* songs of one hold section, from very slow to very fast, calm and intense
HoldBpms == {40, 120, 200, 750}

HoldStructures ==
    { [bpm |-> b, sections |-> << Section(0, 3000, i, "hold") >>] :
        b \in HoldBpms, i \in {5, 9} }

\* the intense songs, where chords are drawn, are charted on Hard only
HoldInputs ==
    { in \in [onsets : {LoudOnsets}, structure : HoldStructures,
              difficulty : Difficulties, laneCount : {4},
              playStyle : {"THUMB", "MULTI"}] :
        in.structure.sections[1].intensity = 9 => in.difficulty = "HARD" }

InitHoldGen == InitGenOn(HoldInputs)

SpecHoldGen == InitHoldGen /\ [][NextGen]_vars

----------------------------------------------------------------------------
(***************************************************************************)
(* Onset detection (src/utils/audioAnalyzer.ts), from the per-frame RMS    *)
(* energies of the two bands on.  Energies are in units of 0.0001, the     *)
(* time of frame i is i / 60 s and is kept as the frame number.  The       *)
(* moving averages are compared as exact fractions.                        *)
(***************************************************************************)

MaxFrames == 6   \* most frames of an analysed track

HALF_WINDOW == 15        \* Math.floor(0.5 * frameRate / 2)
SILENCE_THRESHOLD == 100
ENERGY_GAIN == 5
ENERGY_CAP == 10000      \* Math.min(1, ...)
Never == -60             \* lastOnsetTime = -1, in frames

FrameEnergies == {0, 100, 200, 3000}

\* the low band of a track: nothing, all of the full band, its peaks only,
\* or its peaks at the level of the silence floor
LowBand(full, shape) ==
    [i \in 1 .. Len(full) |->
        IF shape = "same" \/ (shape = "peaks" /\ full[i] = 3000) THEN full[i]
        ELSE IF shape = "faint" /\ full[i] = 3000 THEN SILENCE_THRESHOLD
        ELSE 0]

Tracks ==
    { [full |-> f, low |-> LowBand(f, shape)] :
        f \in UNION { [1 .. n -> FrameEnergies] : n \in {0, MaxFrames} },
        shape \in {"none", "same", "peaks", "faint"} }

\* frames (last, i), three apart, for which i / 60 - last / 60 < 0.05 in
\* double precision
RoundedShort == { <<2, 5>>, <<6, 9>>, <<7, 10>> }

\* variant: a minimum gap of two frames
TooSoon_TwoFrames(i, last) == i - last < 2

\* time - lastOnsetTime < minGap, for frame numbers from 0
TooSoon(i, last) == i - last < 3 \/ <<last, i>> \in RoundedShort

RECURSIVE SumOver(_, _, _)
SumOver(data, from, to) ==
    IF from > to THEN 0 ELSE data[from] + SumOver(data, from + 1, to)

\* calculateMovingAverage at frame i (from 0): the sum and the number of the
\* frames start .. end - 1
Window(data, i) ==
    LET start == Max(0, i - HALF_WINDOW)
        end == Min(Len(data), i + HALF_WINDOW)
    IN [sum |-> SumOver(data, start + 1, end), count |-> end - start]

\* energy / (threshold + 0.00001) > percent / 100
RatioAbove(data, i, percent) ==
    LET w == Window(data, i)
    IN data[i + 1] * w.count * 1000 > percent * (10 * w.sum + w.count)

isLowHit(tr, i) ==
    RatioAbove(tr.low, i, 105) /\ tr.low[i + 1] > SILENCE_THRESHOLD

\* variant: the full band is not tested against the silence floor
isFullHit_NoFloor(tr, i) == RatioAbove(tr.full, i, 110)

isFullHit(tr, i) ==
    RatioAbove(tr.full, i, 110) /\ tr.full[i + 1] > SILENCE_THRESHOLD

\* lowRatio > fullRatio (the two windows have the same frames)
LowDominant(tr, i) ==
    LET wl == Window(tr.low, i)
        wf == Window(tr.full, i)
    IN tr.low[i + 1] * (10 * wf.sum + wf.count)
           > tr.full[i + 1] * (10 * wl.sum + wl.count)

\* variant: isLowFreq is the comparison of the ratios alone
DetectedOnset_RatioOnly(tr, i) ==
    [time |-> i,
     energy |-> Min(ENERGY_CAP, Max(tr.low[i + 1], tr.full[i + 1]) * ENERGY_GAIN),
     isLowFreq |-> LowDominant(tr, i)]

\* onsets.push({time, energy, isLowFreq})
DetectedOnset(tr, i) ==
    [time |-> i,
     energy |-> Min(ENERGY_CAP, Max(tr.low[i + 1], tr.full[i + 1]) * ENERGY_GAIN),
     isLowFreq |-> isLowHit(tr, i) /\ LowDominant(tr, i)]

\* variant: lastOnsetTime outlives the call
LoopStart_Kept(last) == [i |-> 0, lastOnsetTime |-> last, onsets |-> << >>]

\* the locals of the detection loop before frame 0
LoopStart(last) == [i |-> 0, lastOnsetTime |-> Never, onsets |-> << >>]

Asleep ==
    UNCHANGED <<status, chart, audioOffset, now, startTime, notes, score,
                keyState, touchDown, activeTouches, onTime, audio, emitted,
                gen, countdown>>

\* analyzeAudioDSP is called on the track and reaches its detection loop
analyzeAudioDSP ==
    /\ dsp.phase = "idle"
    /\ Len(dsp.results) < 2
    /\ dsp' = [dsp EXCEPT !.phase = "loop",
                          !.loop = LoopStart(dsp.loop.lastOnsetTime)]
    /\ Asleep

\* one iteration of the detection loop
detectFrame ==
    /\ dsp.phase = "loop"
    /\ dsp.loop.i < Len(dsp.track.full)
    /\ LET i == dsp.loop.i
           tr == dsp.track
       IN IF ~TooSoon(i, dsp.loop.lastOnsetTime)
             /\ (isLowHit(tr, i) \/ isFullHit(tr, i))
          THEN dsp' = [dsp EXCEPT !.loop.i = i + 1,
                                  !.loop.lastOnsetTime = i,
                                  !.loop.onsets = Append(@, DetectedOnset(tr, i))]
          ELSE dsp' = [dsp EXCEPT !.loop.i = i + 1]
    /\ Asleep

\* the loop is over and analyzeAudioDSP returns its onsets
analyzeReturn ==
    /\ dsp.phase = "loop"
    /\ dsp.loop.i >= Len(dsp.track.full)
    /\ dsp' = [dsp EXCEPT !.phase = "idle",
                          !.results = Append(@, dsp.loop.onsets)]
    /\ Asleep

InitDetect ==
    /\ \E tr \in Tracks :
          dsp = [phase |-> "idle", track |-> tr, loop |-> LoopStart(Never),
                 results |-> << >>]
    /\ gen = NotGenerating
    /\ status = "Analyzing"
    /\ chart = [notes |-> << >>, duration |-> 0]
    /\ audioOffset = 0
    /\ now = 0
    /\ startTime = 0
    /\ notes = << >>
    /\ score = ZeroScore
    /\ keyState = << >>
    /\ touchDown = {}
    /\ activeTouches = [t \in TouchIds |-> Absent]
    /\ onTime = {}
    /\ audio = [source |-> FALSE, ctx |-> FALSE, loop |-> FALSE,
                stops |-> 0, closes |-> 0, calls |-> 0]
    /\ emitted = NothingEmitted
    /\ countdown = 0

NextDetect ==
    \/ analyzeAudioDSP
    \/ detectFrame
    \/ analyzeReturn

SpecDetect == InitDetect /\ [][NextDetect]_vars

----------------------------------------------------------------------------
(* calculateDifficultyRating on its own *)

MaxRated == 12   \* most notes of a rated chart

\* n taps, gap apart
Taps(n, gap) == [i \in 1 .. n |-> NewNote(gap * (i - 1), 0, 0, "NORMAL")]

RatedCharts == { Taps(n, gap) : n \in 0 .. MaxRated, gap \in {5, 50, 120} }

RatedDurations == {0, 10, 50, 1000, 6000}

InitRating ==
    /\ \E ns \in RatedCharts, duration \in RatedDurations :
          gen = [phase |-> "rating", notes |-> ns, duration |-> duration,
                 rating |-> << >>]
    /\ status = "Analyzing"
    /\ chart = [notes |-> << >>, duration |-> 0]
    /\ audioOffset = 0
    /\ now = 0
    /\ startTime = 0
    /\ notes = << >>
    /\ score = ZeroScore
    /\ keyState = << >>
    /\ touchDown = {}
    /\ activeTouches = [t \in TouchIds |-> Absent]
    /\ onTime = {}
    /\ audio = [source |-> FALSE, ctx |-> FALSE, loop |-> FALSE,
                stops |-> 0, closes |-> 0, calls |-> 0]
    /\ emitted = NothingEmitted
    /\ countdown = 0
    /\ dsp = NotAnalyzing

NextRating == applyRating

SpecRating == InitRating /\ [][NextRating]_vars

----------------------------------------------------------------------------
(* Properties *)

Lanes == 0 .. 5

\* the time the audio clock has moved on by in this step, and the game time
\* at which the handler of this step runs
Elapsed == now' - now
G == GameTime(now')

\* this step is a handler that called processHit(L) and nothing else; such a
\* step leaves lane L held
PressedOnly(L) ==
    /\ L \in DOMAIN keyState /\ keyState'[L]
    /\ \/ handleKeyDown(Elapsed, L)
       \/ \E id \in TouchIds :
             /\ activeTouches'[id] = L
             /\ activeTouches[id] \in {Absent, -1}
             /\ touchstart(Elapsed, id, L) \/ touchmove(Elapsed, id, L)

\* this step is a handler that called processHit(L)
Pressed(L) ==
    /\ L \in DOMAIN keyState /\ keyState'[L]
    /\ \/ handleKeyDown(Elapsed, L)
       \/ \E id \in TouchIds :
             /\ activeTouches'[id] = L
             /\ activeTouches[id] # L
             /\ touchstart(Elapsed, id, L) \/ touchmove(Elapsed, id, L)

\* this step is a handler that called processRelease(L) and nothing else;
\* such a step leaves lane L not held
ReleasedOnly(L) ==
    /\ L \in DOMAIN keyState /\ ~keyState'[L]
    /\ \/ handleKeyUp(Elapsed, L)
       \/ \E id \in TouchIds :
             /\ activeTouches[id] = L
             /\ ~StillHeld(activeTouches', L)
             /\ touchend(Elapsed, id) \/ touchmove(Elapsed, id, -1)

\* this step is an animation frame; a frame changes no input state
Ticked ==
    /\ keyState' = keyState /\ activeTouches' = activeTouches
    /\ Tick(Elapsed)

\* this step belongs to the running session
InSession == status = "Playing"

\* unresolved NORMAL notes of lane L within the GOOD window at game time g
Matching(L, g) ==
    {i \in DOMAIN notes : /\ ~notes[i].hit
                          /\ notes[i].lane = L
                          /\ notes[i].type = "NORMAL"
                          /\ Abs(g - notes[i].time) < HIT_WINDOW_GOOD}

First(S) == CHOOSE i \in S : \A j \in S : i <= j

\* unresolved notes a tick at game time g finds past their miss time
Overdue(g) ==
    {i \in DOMAIN notes : ~notes[i].hit /\ g > notes[i].time + HIT_WINDOW_GOOD}

\* unresolved CATCH notes of held lanes a tick at game time g finds in their
\* window
Catchable(g) ==
    {i \in DOMAIN notes : /\ notes[i].type = "CATCH" /\ ~notes[i].hit
                          /\ Abs(g - notes[i].time) <= HIT_WINDOW_CATCH
                          /\ Held(keyState, notes[i].lane)}

\* the engine state a tick at game time g has reached when it comes to note i
RECURSIVE Before(_, _)
Before(i, g) ==
    IF i = 1 THEN [notes |-> notes, score |-> score]
    ELSE NoteStep(Before(i - 1, g), i - 1, g, keyState)

Judged(sc) == sc.perfect + sc.good + sc.miss

\* C1: a press of lane L that finds unresolved NORMAL notes of L within the
\* GOOD window marks exactly the first of them in chart order hit, raises
\* combo by one (maxCombo at least combo) and counts PERFECT when the press
\* is less than 0.050 from the note, GOOD otherwise.
C1_TapResolution ==
    [][\A L \in Lanes :
         (Pressed(L) /\ Matching(L, G) # {}) =>
            LET i == First(Matching(L, G))
                diff == Abs(G - notes[i].time)
            IN /\ notes'[i].hit
               /\ \A j \in DOMAIN notes \ {i} : notes'[j].hit = notes[j].hit
               /\ score'.combo = score.combo + 1
               /\ score'.maxCombo >= score'.combo
               /\ score'.maxCombo >= score.maxCombo
               /\ score'.miss = score.miss
               /\ diff < HIT_WINDOW_PERFECT =>
                     score'.perfect = score.perfect + 1 /\ score'.good = score.good
               /\ diff >= HIT_WINDOW_PERFECT =>
                     score'.good = score.good + 1 /\ score'.perfect = score.perfect
      ]_vars

\* at the time of the first of two candidate notes of a lane, a press has
\* hit the first one, as PERFECT, and left the second unresolved
C1_Witness ==
    /\ Len(notes) >= 2
    /\ 1 \in onTime
    /\ GameTime(now) = notes[1].time
    /\ notes[1].hit /\ notes[1].lane = 0
    /\ ~notes[2].hit /\ notes[2].lane = 0 /\ notes[2].type = "NORMAL"
    /\ Abs(GameTime(now) - notes[2].time) < HIT_WINDOW_GOOD
    /\ score.perfect = 1 /\ score.good = 0 /\ score.combo = 1

\* C2: a tick at game time g turns every unresolved note with
\* g > note.time + 0.120 into a MISS: for that note miss goes up by exactly
\* one and combo is set to 0; miss goes up for nothing else, so no note is
\* counted as a miss twice.
C2_MissResolution ==
    [][/\ Ticked =>
            /\ \A i \in Overdue(G) :
                  LET pre == Before(i, G)
                      post == NoteStep(pre, i, G, keyState)
                  IN /\ post.score.miss = pre.score.miss + 1
                     /\ post.score.combo = 0
                     /\ notes'[i].hit /\ ~notes'[i].visible
            /\ score'.miss = score.miss + Cardinality(Overdue(G))
       /\ InSession =>
            score'.miss - score.miss =
               Cardinality({i \in DOMAIN notes :
                              /\ ~notes[i].hit /\ notes'[i].hit
                              /\ Ticked
                              /\ G > notes[i].time + HIT_WINDOW_GOOD})
      ]_vars

\* the first tick that can see the second note overdue has counted it as the
\* only miss and reset the combo the first note had built
C2_Witness ==
    /\ Len(notes) >= 2
    /\ 1 \in onTime
    /\ GameTime(now) = notes[2].time + HIT_WINDOW_GOOD + 1
    /\ notes[2].hit /\ ~notes[2].visible
    /\ score.miss = 1 /\ score.combo = 0 /\ score.maxCombo = 1

\* C3: a press of lane L at exactly note.time + GOOD_WINDOW of an unresolved
\* NORMAL note of L (and no other candidate in L) counts as a hit of it.
C3_BoundaryPressHits ==
    [][\A L \in Lanes : \A i \in DOMAIN notes :
         (/\ Pressed(L)
          /\ ~notes[i].hit /\ notes[i].lane = L /\ notes[i].type = "NORMAL"
          /\ G = notes[i].time + HIT_WINDOW_GOOD
          /\ Matching(L, G) = {})
         => /\ notes'[i].hit
            /\ score'.combo = score.combo + 1
            /\ score'.miss = score.miss
      ]_vars

\* C4: at every state the judgments counted equal the notes marked hit.
C4_JudgedOnce ==
    Judged(score) = Cardinality({i \in DOMAIN notes : notes[i].hit})

\* every note is past its miss time and resolved, at least one by a hit and
\* at least one by a miss
C4_Witness ==
    /\ \A i \in DOMAIN notes :
          notes[i].hit /\ GameTime(now) > notes[i].time + HIT_WINDOW_GOOD
    /\ score.perfect + score.good >= 1
    /\ score.miss >= 1

\* C5: within a session a hit flag never returns to false, the counters
\* perfect, good and miss never decrease, and each judgment counted is the
\* first and only one of a note that was unresolved.
C5_JudgmentFinal ==
    [][InSession =>
         /\ DOMAIN notes' = DOMAIN notes
         /\ \A i \in DOMAIN notes : notes[i].hit => notes'[i].hit
         /\ score'.perfect >= score.perfect
         /\ score'.good >= score.good
         /\ score'.miss >= score.miss
         /\ Judged(score') - Judged(score) =
               Cardinality({i \in DOMAIN notes : ~notes[i].hit /\ notes'[i].hit})
      ]_vars

\* a hold note hit dead on time was released early and its lane pressed
\* again inside the window: it is still judged once
C5_Witness ==
    /\ Len(notes) = 1
    /\ 1 \in onTime
    /\ notes[1].hit /\ notes[1].duration > 0 /\ ~notes[1].isHolding
    /\ notes[1].visible
    /\ keyState[notes[1].lane]
    /\ GameTime(now) > notes[1].time
    /\ Abs(GameTime(now) - notes[1].time) < HIT_WINDOW_GOOD
    /\ score.perfect = 1 /\ score.good = 0 /\ score.miss = 0

\* C6: a press of lane L that finds no unresolved NORMAL note of L within
\* the GOOD window changes neither the score state nor any note.
C6_NoMatchNoEffect ==
    [][\A L \in Lanes :
         (PressedOnly(L) /\ Matching(L, G) = {}) =>
            /\ score' = score
            /\ notes' = notes
      ]_vars

\* lane 0 has been pressed 0.20 or more before its only note, with a CATCH
\* note of another lane unresolved: nothing has changed
C6_Witness ==
    /\ keyState[0]
    /\ ~notes[1].hit /\ notes[1].lane = 0 /\ notes[1].type = "NORMAL"
    /\ GameTime(now) = notes[1].time - 20
    /\ \E i \in DOMAIN notes : notes[i].type = "CATCH" /\ ~notes[i].hit
    /\ score = ZeroScore
    /\ notes = chart.notes

\* the only note of the chart is a hold note i that was pressed at exactly
\* note.time, has not been released before note.time + duration, and its
\* lane is released by this step
HeldThrough(i) ==
    /\ Len(notes) = 1
    /\ notes[i].duration > 0
    /\ i \in onTime
    /\ notes[i].isHolding \/ ~notes[i].visible
    /\ ReleasedOnly(notes[i].lane)
    /\ G >= notes[i].time + notes[i].duration

\* score of a tap pressed at exactly note.time as the first note of a
\* session: 1000 * (1 + 1/50), in fifths of a point
TapScore == 5 * 1020

\* C7: a hold pressed at note.time and held through note.time + duration
\* ends with zero misses and strictly more score than the same press on a
\* tap.
C7_HoldOutscoresTap ==
    [][\A i \in DOMAIN notes :
         HeldThrough(i) => score'.miss = 0 /\ score'.score > TapScore
      ]_vars

C9_ScoreIncrement ==
    [][InSession =>
         /\ score'.score >= score.score
         /\ \A L \in Lanes :
              (Pressed(L) /\ Matching(L, G) # {}) =>
                 LET c == score.combo + 1
                     inc == score'.score - score.score
                 IN /\ score'.perfect = score.perfect + 1 =>
                          /\ inc = 5 * 1000 + 100 * Min(c, 100)
                          /\ inc <= 5 * 3000
                          /\ c >= 100 => inc = 5 * 3000
                    /\ score'.good = score.good + 1 =>
                          /\ inc = 5 * 500 + 50 * Min(c, 100)
                          /\ inc <= 5 * 1500
                          /\ c >= 100 => inc = 5 * 1500
         /\ Ticked =>
              \A i \in Catchable(G) :
                 LET pre == Before(i, G)
                     post == NoteStep(pre, i, G, keyState)
                     c == pre.score.combo + 1
                     inc == post.score.score - pre.score.score
                 IN /\ inc = 5 * 1000 + 100 * Min(c, 100)
                    /\ inc <= 5 * 3000
                    /\ c >= 100 => inc = 5 * 3000
                    /\ (Catchable(G) = {i}
                          /\ \A j \in DOMAIN notes : ~notes[j].isHolding)
                       => score'.score - score.score = inc
      ]_vars

\* after a GOOD tap at a combo of at least 100 a tick has caught the CATCH
\* note, inside its window, at a combo above the cap
C9_Witness ==
    /\ Len(notes) = 2
    /\ notes[1].hit
    /\ notes[2].type = "CATCH" /\ notes[2].hit
    /\ Abs(GameTime(now) - notes[2].time) <= HIT_WINDOW_CATCH
    /\ score.miss = 0
    /\ score.combo > 100
    /\ score.good = 1

\* C10: a release of lane L while a hold note of L is holding changes no
\* score field, ends the holding state of that note (so that later ticks
\* add no hold score for it) and leaves it hit, never to be missed.
C10_ReleaseStopsHold ==
    [][\A L \in Lanes : \A i \in DOMAIN notes :
         (notes[i].lane = L /\ notes[i].isHolding /\ ReleasedOnly(L))
         => /\ score' = score
            /\ ~notes'[i].isHolding
            /\ notes'[i].hit
      ]_vars

\* touches other than id that map to lane L
Others(id, L) == {o \in TouchIds \ {id} : activeTouches[o] = L}

\* C11: with touch input only, after every touch event lane L is held iff
\* some tracked touch maps to L; a touch that leaves L (lifted or slid away)
\* while another touch maps to L releases nothing (L stays held, the notes of
\* L keep their holding state); a touch sliding from lane A to lane B
\* releases A, if no other touch maps to A, and presses B.
C11_TouchRefCount ==
    [][/\ \A L \in DOMAIN keyState' :
             keyState'[L] <=> StillHeld(activeTouches', L)
       /\ InSession =>
            \A id \in TouchIds : \A A \in DOMAIN keyState :
               (activeTouches[id] = A /\ activeTouches'[id] # A) =>
                  /\ Others(id, A) # {} =>
                        /\ keyState'[A]
                        /\ \A i \in DOMAIN notes :
                              notes[i].lane = A => notes'[i] = notes[i]
                  /\ Others(id, A) = {} =>
                        /\ ~keyState'[A]
                        /\ FindHolding(notes, A, 1) # 0 =>
                              ~notes'[FindHolding(notes, A, 1)].isHolding
                  /\ \A B \in DOMAIN keyState :
                        activeTouches'[id] = B =>
                           /\ keyState'[B]
                           /\ Matching(B, G) # {} =>
                                 notes'[First(Matching(B, G))].hit
      ]_vars

\* two touches on lane 0 started both of its hold notes; one of them has
\* left lane 0 and both notes are still holding, the lane still held
C11_Witness ==
    /\ Len(notes) = 2
    /\ notes[1].isHolding /\ notes[2].isHolding
    /\ keyState[0]
    /\ Cardinality({id \in TouchIds : activeTouches[id] = 0}) = 1

\* the session notes are the template as created and the score is all zeros
SessionFresh ==
    /\ notes = chart.notes
    /\ \A i \in DOMAIN notes : ~notes[i].hit /\ ~notes[i].isHolding
    /\ score = ZeroScore

\* C12: a session starts from a fresh copy of the chart: no step changes the
\* template chart, and every session, the first one and a replay after a
\* finished one alike, begins with all notes unhit and not holding and with a
\* score state of zeros.
C12_FreshSession ==
    /\ SessionFresh
    /\ [][/\ chart' = chart
          /\ \A i \in DOMAIN chart'.notes :
                /\ ~chart'.notes[i].hit
                /\ ~chart'.notes[i].isHolding
                /\ chart'.notes[i].visible
          /\ (status # "Playing" /\ status' = "Playing") => SessionFresh'
         ]_vars

\* a session has ended with notes of its copy resolved, one of them a hold
\* that was hit, and the template still as created
C12_Witness ==
    /\ status = "Finished"
    /\ \A i \in DOMAIN notes : notes[i].hit /\ ~chart.notes[i].hit
    /\ \E i \in DOMAIN notes :
          notes[i].duration > 0 /\ ~notes[i].visible /\ chart.notes[i].visible
    /\ score.perfect >= 1

\* C13: a second stopMusic in a row stops and closes nothing again: over a
\* session source.stop() and ctx.close() are called at most once each, after
\* the first stopMusic the source and context are forgotten and the loop is
\* cancelled, and no stopMusic changes the score state or emits anything.
C13_StopIdempotent ==
    [][/\ audio'.stops <= 1 /\ audio'.closes <= 1
       /\ audio'.calls >= 1 =>
             /\ ~audio'.source /\ ~audio'.ctx /\ ~audio'.loop
             /\ audio'.stops = 1 /\ audio'.closes = 1
       /\ (audio.calls >= 1 /\ audio'.calls = audio.calls + 1) =>
             /\ audio'.stops = audio.stops
             /\ audio'.closes = audio.closes
             /\ score' = score
             /\ notes' = notes
             /\ emitted' = emitted
             /\ status' = status
       /\ audio'.calls > audio.calls => score' = score
      ]_vars

\* stopMusic has run twice after a session that scored; the source was
\* stopped once and the context closed once
C13_Witness ==
    /\ status = "Finished"
    /\ audio.calls = 2
    /\ audio.stops = 1 /\ audio.closes = 1
    /\ ~audio.loop
    /\ score.score > 0

\* C14: the playback-ended signal of a session makes exactly one terminal
\* emission: onGameEnd is called once, with the final score state, status
\* goes from Playing to Finished, and the GameResult has floor(score) and the
\* maxCombo, perfect, good and miss of that score state; nothing else emits.
C14_SingleEmission ==
    [][/\ (status = "Playing" /\ status' = "Finished") =>
             /\ now >= EndTime
             /\ emitted.count = 0 /\ emitted'.count = 1
             /\ score' = score
             /\ LET r == emitted'.result[1] IN
                   /\ 5 * r.score <= score.score
                   /\ score.score < 5 * (r.score + 1)
                   /\ r.maxCombo = score.maxCombo
                   /\ r.perfect = score.perfect
                   /\ r.good = score.good
                   /\ r.miss = score.miss
       /\ emitted' # emitted =>
             \/ status = "Playing" /\ status' = "Finished"
             \/ status = "Finished" /\ status' = "Playing" /\ emitted'.count = 0
       /\ status' = "Finished" <=> emitted'.count = 1
       /\ status' = "Playing" <=> emitted'.count = 0
      ]_vars

\* a session has ended on a score that is not a whole number of points; its
\* one GameResult carries the floor
C14_Witness ==
    /\ status = "Finished"
    /\ emitted.count = 1
    /\ score.score % 5 # 0
    /\ emitted.result[1].score = score.score \div 5
    /\ emitted.result[1].perfect = 1

\* C15: a session does not start on a chart with a note whose lane is
\* outside 0 .. laneCount-1, and no such note is ever judged (left to become
\* a miss).
C15_LaneValidation ==
    [][/\ status' = "Playing" =>
             \A i \in DOMAIN notes' :
                notes'[i].lane \in 0 .. LaneCount(chart'.notes) - 1
       /\ \A i \in DOMAIN notes :
             (InSession /\ ~InRange(notes[i].lane)) => notes'[i] = notes[i]
      ]_vars

\* the game time of this step's handler, written out: audio clock minus the
\* session start time (the clock at session start, 0, plus the lead-in) minus
\* the audio offset
Written == (now' - (0 + LEAD_IN_TIME)) - audioOffset

\* presses and ticks of this step judge by the game time g
JudgedAt(g) ==
    /\ startTime = 0 + LEAD_IN_TIME
    /\ \A L \in Lanes :
          Pressed(L) =>
             ((\E i \in DOMAIN notes : ~notes[i].hit /\ notes'[i].hit)
                 <=> Matching(L, g) # {})
    /\ Ticked =>
          \A i \in DOMAIN notes :
             (~notes[i].hit /\ notes[i].type = "NORMAL") =>
                (notes'[i].hit <=> g > notes[i].time + HIT_WINDOW_GOOD)

\* C16 as stated: presses and ticks judge by gameTime = clock - start time -
\* audio offset, gameTime is negative throughout the lead-in and is 0 when
\* audio playback starts.
C16_ZeroAtPlaybackStart ==
    [][InSession =>
         /\ JudgedAt(Written)
         /\ now' < startTime => Written < 0
         /\ now' = startTime => Written = 0
      ]_vars

\* C16 as amended: presses and ticks judge by gameTime = clock - start time
\* - audio offset, gameTime is negative throughout the lead-in (the offset
\* being 0 or more) and is minus the audio offset when audio playback starts,
\* reaching 0 one audio offset later.
C16_GameTime ==
    [][InSession =>
         /\ JudgedAt(Written)
         /\ now' < startTime => Written < 0
         /\ now' = startTime => Written = -audioOffset
         /\ now' = startTime + audioOffset => Written = 0
      ]_vars

\* with an audio offset of 0.03 a press 0.03 after playback started has hit
\* the note of time 0.00 dead on time
C16_Witness ==
    /\ audioOffset = 3
    /\ now = startTime + audioOffset
    /\ 1 \in onTime
    /\ notes[1].time = 0 /\ notes[1].hit
    /\ score.perfect = 1

\* C35: at every reachable state of a session, any note with isHolding =
\* true lies in a lane that is currently held: after the last input source
\* has left lane L no note of L remains in the holding state, also when
\* several fingers pressed L and started more than one hold there.
C35_HoldingImpliesHeld ==
    \A i \in DOMAIN notes : notes[i].isHolding => Held(keyState, notes[i].lane)

----------------------------------------------------------------------------
(* Properties of the beatmap generator *)

\* generateBeatmap has returned (the import may have gone on since)
Returned == gen.phase \in {"returned", "failed", "saved"}

\* C17: generateBeatmap never returns an empty chart when the onset list is
\* non-empty, and returns [] only when the onset list is empty.
C17_NeverEmpty ==
    Returned => (Len(gen.out) = 0 <=> Len(gen.in.onsets) = 0)

\* the chart returned was made by generateRawFallback
ViaFallback == Returned /\ Len(gen.pass.notes) = 0 /\ Len(gen.sorted) > 0

\* notes i and j of a chart lie in one lane, start at different times and
\* are less than gap apart
TooClose(ns, i, j, gap) ==
    /\ ns[i].lane = ns[j].lane
    /\ ns[i].time # ns[j].time
    /\ Abs(ns[i].time - ns[j].time) < gap

\* C18: within one lane of a chart returned by generateBeatmap (main pass,
\* retry pass or raw fallback), notes with different start times are at least
\* the minGap of the difficulty apart.
C18_MinGap ==
    Returned =>
        \A i, j \in 1 .. Len(gen.out) :
            ~TooClose(gen.out, i, j, DIFFICULTY_CONFIG[gen.in.difficulty].minGap)

\* C19: every note returned by generateBeatmap has a lane within
\* [0, laneCount - 1] for the configured lane count (Titan forcing 6) and the
\* time of some input onset, hence a time within the track whenever the
\* onset times are.
C19_LaneAndTime ==
    Returned =>
        LET lanes == IF gen.in.difficulty = "TITAN" THEN 6 ELSE gen.in.laneCount
        IN \A i \in 1 .. Len(gen.out) :
              /\ gen.out[i].lane >= 0
              /\ gen.out[i].lane <= lanes - 1
              /\ \E k \in 1 .. Len(gen.in.onsets) :
                    gen.in.onsets[k].time = gen.out[i].time

\* a Titan chart asked for on 4 lanes is returned with a chord of four that
\* reaches lane 5
C19_Witness ==
    /\ Returned
    /\ gen.in.difficulty = "TITAN" /\ gen.in.laneCount = 4
    /\ Len(gen.out) >= 4
    /\ \A i \in 1 .. 4 : gen.out[i].time = gen.in.onsets[1].time
    /\ gen.out[4].lane = 5

\* the notes of a chart that start at time t
AtTime(ns, t) == {i \in 1 .. Len(ns) : ns[i].time = t}

\* C20: with play style THUMB and a difficulty other than Titan, no more
\* than 2 notes of the chart returned by generateBeatmap share the same
\* time (Titan is generated as MULTI on 6 lanes and is exempt).
C20_ThumbCap ==
    (Returned /\ gen.in.playStyle = "THUMB" /\ gen.in.difficulty # "TITAN") =>
        \A i \in 1 .. Len(gen.out) :
            Cardinality(AtTime(gen.out, gen.out[i].time)) <= 2

\* an Expert chart for thumbs on 6 lanes: the onset of energy 0.99, which
\* gives a chord of three in MULTI style, is returned as a chord of two
C20_Witness ==
    /\ Returned
    /\ gen.in.playStyle = "THUMB" /\ gen.in.difficulty = "EXPERT"
    /\ gen.in.laneCount = 6
    /\ gen.in.onsets = LoudOnsets
    /\ Cardinality(AtTime(gen.out, LoudOnsets[1].time)) = 2

\* C21: in every chart returned by generateBeatmap a CATCH note has
\* duration 0 and is the only note at its time, and every note of a raw
\* fallback chart is NORMAL with duration 0.
C21_CatchShape ==
    Returned =>
        /\ \A i \in 1 .. Len(gen.out) :
              gen.out[i].type = "CATCH" =>
                  /\ gen.out[i].duration = 0
                  /\ AtTime(gen.out, gen.out[i].time) = {i}
        /\ ViaFallback =>
              \A i \in 1 .. Len(gen.out) :
                  gen.out[i].type = "NORMAL" /\ gen.out[i].duration = 0

\* a returned chart with a hold note, followed by a catch note
C21_Witness ==
    /\ Returned
    /\ Len(gen.out) >= 2
    /\ gen.out[1].duration > 0 /\ gen.out[1].type = "NORMAL"
    /\ gen.out[2].type = "CATCH"

\* C22: when generateBeatmap returns an empty chart (in particular for an
\* empty onset list), handleCreateBeatmap surfaces a generation failure: no
\* song is saved, no difficulty rating is computed, status returns to Library
\* and an error message is set; no library entry has an empty chart.
C22_EmptyChartFails ==
    [][/\ (gen.phase = "returned" /\ gen'.phase # "returned" /\ Len(gen.out) = 0) =>
            /\ gen'.library = gen.library
            /\ gen'.rating = << >>
            /\ gen'.errorMessage # "null"
            /\ status' = "Library"
       /\ \A i \in 1 .. Len(gen'.library) : Len(gen'.library[i].notes) > 0
      ]_vars

\* the import of a track without onsets has failed with nothing saved
C22_Witness ==
    /\ gen.phase = "failed"
    /\ Len(gen.in.onsets) = 0
    /\ gen.errorMessage = "GenerativeFailure"
    /\ Len(gen.library) = 0
    /\ status = "Library"

Rated == gen.phase = "rated"

\* C24: calculateDifficultyRating always returns a value within [1, 20],
\* for every note list and duration.
C24_RatingRange ==
    Rated => (gen.rating[1] >= 1000 /\ gen.rating[1] <= 20000)

\* C24 as amended: calculateDifficultyRating returns 0 for an empty note list
\* or a duration of 0, and a value within [1, 20] for every other note list
\* and duration.
C24_RatingRangeOrZero ==
    Rated =>
        IF Len(gen.notes) = 0 \/ gen.duration = 0
        THEN gen.rating[1] = 0
        ELSE gen.rating[1] >= 1000 /\ gen.rating[1] <= 20000

\* a dense chart is rated between 10 and 20, a sparse one 1, a packed one 20
C24_Witness ==
    /\ Rated
    /\ Len(gen.notes) = MaxRated /\ gen.duration = 50
    /\ gen.rating[1] > 10000 /\ gen.rating[1] < 20000
    /\ calculateDifficultyRating(Taps(1, 5), 6000) = 1000
    /\ calculateDifficultyRating(Taps(MaxRated, 5), 10) = 20000

\* the step is one onset of a generation pass
PassStep ==
    /\ gen.phase \in {"main", "retry"}
    /\ gen'.phase = gen.phase
    /\ gen'.pass.k = gen.pass.k + 1

\* the notes the step has placed
Placed == SubSeq(gen'.pass.notes, Len(gen.pass.notes) + 1, Len(gen'.pass.notes))

\* the section the onset of time t is to be processed under
ActiveSection(secs, t) ==
    LET covering == {i \in 1 .. Len(secs) :
                        secs[i].startTime <= t /\ t < secs[i].endTime}
    IN IF covering = {} THEN secs[Len(secs)] ELSE secs[Lowest(covering)]

\* C23: each onset is processed under the first section that covers its
\* time, or under the last section when none does: the threshold, the chord
\* size, holds and the lane pattern are those of that section.  With the
\* default structure alone this is its single section, also for onsets
\* later than its endTime.
C23_ActiveSection ==
    [][PassStep =>
         LET onset == gen.sorted[gen.pass.k]
             sec == ActiveSection(gen.in.structure.sections, onset.time)
             quiet == BelowThreshold(onset, sec, gen.pass.config)
             early == onset.time - gen.pass.lastTime < gen.pass.config.minGap
         IN /\ Len(Placed) = 0 <=> (quiet \/ early)
            /\ Len(Placed) > 1 => sec.intensity > 6
            /\ (Len(Placed) = 1 /\ sec.style = "jump" /\ sec.intensity > 6)
                   => onset.energy <= 75
            /\ (Len(Placed) > 0 /\ Placed[1].duration > 0) => sec.style = "hold"
            /\ (Len(Placed) = 1 /\ sec.style = "stream") =>
                   LET last == Lowest(gen.pass.lastLanes)
                   IN Abs(Placed[1].lane - last) \in {1, 2}
            /\ gen.in.structure = DefaultStructure =>
                   sec = [startTime |-> 0, endTime |-> DefaultSectionEnd,
                          intensity |-> 8, style |-> "stream"]
      ]_vars

\* with the default structure, the onset 0.2 s after the end of its section
\* has been placed
C23_Witness ==
    /\ gen.phase = "retry"
    /\ gen.in.structure = DefaultStructure
    /\ gen.in.onsets = LateOnsets
    /\ gen.pass.k = 3
    /\ Len(gen.pass.notes) > 0
    /\ gen.pass.notes[Len(gen.pass.notes)].time = DefaultSectionEnd + 20

\* the onsets of os, in order, whose energy is above 0.1
RECURSIVE AboveFloor(_)
AboveFloor(os) ==
    IF Len(os) = 0 THEN << >>
    ELSE IF os[1].energy > 10 THEN << os[1] >> \o AboveFloor(Tail(os))
    ELSE AboveFloor(Tail(os))

\* C29: the raw fallback is applied exactly when the final generation pass
\* (after the optional retry) produced zero notes and the onset list is
\* non-empty; it gives one NORMAL tap of duration 0 per onset with energy
\* > 0.1, in time order, the k-th of them (k from 0) in lane k mod laneCount.
C29_RawFallback ==
    (Returned /\ \A k \in 1 .. Len(gen.in.onsets) - 1 :
                    gen.in.onsets[k].time <= gen.in.onsets[k + 1].time) =>
        LET lanes == IF gen.in.difficulty = "TITAN" THEN 6 ELSE gen.in.laneCount
            kept == AboveFloor(gen.in.onsets)
        IN IF Len(gen.pass.notes) = 0 /\ Len(gen.in.onsets) > 0
           THEN /\ Len(gen.out) = Len(kept)
                /\ \A k \in 0 .. Len(kept) - 1 :
                      /\ gen.out[k + 1].time = kept[k + 1].time
                      /\ gen.out[k + 1].lane = k % lanes
                      /\ gen.out[k + 1].duration = 0
                      /\ gen.out[k + 1].type = "NORMAL"
           ELSE gen.out = gen.pass.notes

\* a fallback chart longer than its lane count: the lanes have wrapped
C29_Witness ==
    /\ ViaFallback
    /\ gen.phase = "saved"
    /\ gen.in.difficulty = "NORMAL" /\ gen.in.laneCount = 4
    /\ Len(gen.out) = MaxFaint
    /\ gen.out[5].lane = 0 /\ gen.out[6].lane = 1

\* C30: within a generation pass, after a hold note of start t and duration
\* d no later note starts earlier than t + d + minGap (so none starts while
\* a hold is active), and after a tap the next note starts at least minGap
\* later.
C30_GapAfterHold ==
    gen.phase \in {"main", "retry"} =>
        \A i, j \in 1 .. Len(gen.pass.notes) :
            (i < j /\ gen.pass.notes[j].time # gen.pass.notes[i].time) =>
                gen.pass.notes[j].time >=
                    gen.pass.notes[i].time + gen.pass.notes[i].duration
                        + gen.pass.config.minGap

\* a hold from 0.00 to 0.30: the onset at 0.20 was skipped and the one at
\* 0.40 placed
C30_Witness ==
    /\ gen.phase = "retry"
    /\ gen.in.onsets = LoudOnsets
    /\ Len(gen.pass.notes) = 2
    /\ gen.pass.notes[1].time = 0 /\ gen.pass.notes[1].duration = 30
    /\ gen.pass.notes[2].time = 40
    /\ gen.pass.config.minGap = 8

\* the notes placed so far by the pass under way, or the chart returned
Chart == IF gen.phase \in {"main", "retry"} THEN gen.pass.notes ELSE gen.out

\* C31: a generated note has duration > 0 only if its section style is
\* 'hold', it is a size-1 note and the tier's holdChance is > 0 (Easy never
\* produces holds); its duration is then 60/bpm clamped to [0.1, maxHold],
\* with maxHold 0.5 s for Easy and Normal (minGap > 0.2) and 1.0 s for the
\* other tiers; every other note has duration 0.
C31_HoldShape ==
    \A i \in 1 .. Len(Chart) :
        LET n == Chart[i]
            sec == ActiveSection(gen.in.structure.sections, n.time)
            beat == 6000 \div gen.in.structure.bpm
            maxHold == IF gen.in.difficulty \in {"EASY", "NORMAL"} THEN 50 ELSE 100
            clamped == IF beat < 10 THEN 10 ELSE IF beat > maxHold THEN maxHold ELSE beat
        IN /\ n.duration \in {0, clamped}
           /\ n.duration > 0 =>
                 /\ sec.style = "hold"
                 /\ AtTime(Chart, n.time) = {i}
                 /\ gen.in.difficulty # "EASY"
                 /\ n.type = "NORMAL"

\* a Normal chart of a song at 40 bpm has been returned: its first note is a
\* hold of 0.5 s, the beat of 1.5 s cut to the limit of the tier
C31_Witness ==
    /\ Returned
    /\ gen.in.structure.bpm = 40 /\ gen.in.difficulty = "NORMAL"
    /\ Len(gen.out) >= 1
    /\ gen.out[1].duration = 50

\* the chord size of a pass step is within the limits of energy, intensity,
\* tier, play style and lane count
SizeGated ==
    LET onset == gen.sorted[gen.pass.k]
        sec == ActiveSection(gen.in.structure.sections, onset.time)
        titan == gen.in.difficulty = "TITAN"
        n == Len(Placed)
    IN /\ n <= 4
       /\ \A i, j \in 1 .. n : Placed[i].time = Placed[j].time
       /\ n >= 2 => onset.energy > 75 /\ sec.intensity > 6
       /\ n >= 3 => /\ onset.energy > 90
                    /\ titan \/ (gen.in.playStyle = "MULTI" /\ gen.in.laneCount = 6)
       /\ n = 4 => titan /\ onset.energy > 98

\* C32 as stated: a tier whose jumpChance is 0 (Easy, Normal) emits only
\* single notes; for any tier a chord is emitted only for an onset with
\* energy > 0.75 in a section with intensity > 0.6, chords of 3 only for
\* Titan or MULTI on 6 lanes with energy > 0.9, and chords of 4 only for
\* Titan with energy > 0.98.
C32_ChordGate ==
    [][PassStep =>
         /\ gen.in.difficulty \in {"EASY", "NORMAL"} => Len(Placed) <= 1
         /\ SizeGated
      ]_vars

\* C32, amended: a tier whose jumpChance is 0 (Easy, Normal) emits only
\* single notes outside 'jump'-style sections; the limits of energy,
\* intensity, tier, play style and lane count are as stated.
C32_ChordGateOutsideJump ==
    [][PassStep =>
         LET onset == gen.sorted[gen.pass.k]
             sec == ActiveSection(gen.in.structure.sections, onset.time)
         IN /\ (gen.in.difficulty \in {"EASY", "NORMAL"} /\ sec.style # "jump")
                  => Len(Placed) <= 1
            /\ SizeGated
      ]_vars

\* a Titan pass has placed a chord of 4 for the onset of energy 0.99 and a
\* chord of 3 for the one of energy 0.95 in an intense stream section
C32_Witness ==
    /\ gen.phase = "main"
    /\ gen.in.difficulty = "TITAN"
    /\ gen.in.onsets = LoudOnsets
    /\ gen.in.structure.sections[1].style = "stream"
    /\ Len(gen.pass.notes) = 7
    /\ gen.pass.notes[4].time = 0
    /\ gen.pass.notes[5].time = 20 /\ gen.pass.notes[7].time = 20

\* C38: no two notes of a chart built by generateBeatmap share both the
\* same time and the same lane (the lanes of one chord are pairwise
\* distinct), so the note ids, which are made of time and lane, are unique
\* within a chart.
C38_DistinctSlots ==
    \A j \in DOMAIN Chart : \A i \in 1 .. j - 1 :
        Chart[i].time # Chart[j].time \/ Chart[i].lane # Chart[j].lane

\* a finished chart that holds a chord
C38_Witness ==
    /\ gen.phase = "returned"
    /\ \E i, j \in DOMAIN gen.out :
           /\ i # j
           /\ gen.out[i].time = gen.out[j].time
           /\ gen.out[i].lane # gen.out[j].lane

----------------------------------------------------------------------------
(* Properties of the hold tick *)

\* hold notes a tick finds hit and holding
Holding == {i \in DOMAIN notes : /\ notes[i].hit /\ notes[i].duration > 0
                                 /\ notes[i].isHolding}

\* C27: on each tick every note with hit, duration > 0 and isHolding adds
\* 20 * (1 + min(combo,100)/100) to the score while gameTime is below
\* note.time + duration; the first tick with gameTime at or past that end
\* completes the hold (isHolding and visible false) and adds no score, and
\* the note accrues nothing afterwards.  Scores are in fifths of a point.
C27_HoldTick ==
    [][/\ \A i \in DOMAIN notes :
            (notes[i].hit /\ ~notes[i].isHolding) => ~notes'[i].isHolding
       /\ (InSession /\ Ticked) =>
            LET Going == {i \in Holding : G < notes[i].time + notes[i].duration}
            IN /\ \A i \in Going :
                     LET pre == Before(i, G)
                         post == NoteStep(pre, i, G, keyState)
                     IN /\ notes'[i].isHolding /\ notes'[i].visible
                        /\ post.score.score - pre.score.score
                              = 100 + Min(pre.score.combo, 100)
                        /\ post.score.score - pre.score.score <= 5 * 40
               /\ \A i \in Holding \ Going :
                     LET pre == Before(i, G)
                         post == NoteStep(pre, i, G, keyState)
                     IN /\ ~notes'[i].isHolding /\ ~notes'[i].visible
                        /\ post.score = pre.score
               /\ Judged(score') = Judged(score) =>
                     score'.score - score.score
                        = Cardinality(Going) * (100 + Min(score.combo, 100))
      ]_vars

\* both hold notes were pressed in time from a combo of 100, ticks have added
\* hold score at a combo above the cap, and the first hold has completed
C27_Witness ==
    /\ chart = HoldTailChart
    /\ score.perfect = 102 /\ score.combo = 102 /\ score.miss = 0
    /\ notes[1].hit /\ ~notes[1].isHolding /\ ~notes[1].visible
    /\ keyState[0]
    /\ notes[2].isHolding
    /\ GameTime(now) >= notes[1].time + notes[1].duration
    /\ score.score >= SumPerfect(102) + 3 * (5 * 40)

----------------------------------------------------------------------------
(* Properties of the session lifecycle *)

C36_AllResolved ==
    status = "Finished" =>
        /\ \A i \in DOMAIN notes : notes[i].hit
        /\ Judged(emitted.result[1]) = Len(notes)

\* C37: tearing a session down without a playback-ended signal (status
\* leaves Playing through back-navigation or unmount, which stops the
\* playback source) never invokes onGameEnd: a GameResult is produced, and
\* status becomes Finished, only in a session that is Playing and whose
\* track has been played to its end.
C37_NoResultOnTeardown ==
    [][(emitted' # emitted \/ (status' = "Finished" /\ status # "Finished"))
          => (status = "Playing" /\ now >= EndTime)
      ]_vars

\* the best result stored for the song that is loaded
Stored == gen.library[currentSongId].bestResult

\* C39: a song's stored bestResult is replaced only in the step that
\* finishes a session, by the result of that session, and only when
\* floor(score) of the session is strictly greater than the stored
\* bestResult.score or none is stored; over finished sessions and replays
\* the stored bestResult.score never decreases.
C39_BestOnlyGrows ==
    [][LET old == Stored
           new == gen'.library[currentSongId].bestResult
       IN /\ new # old =>
                /\ status = "Playing" /\ status' = "Finished"
                /\ new # << >>
                /\ new[1].score * 5 <= score.score
                /\ score.score < new[1].score * 5 + 5
                /\ old = << >> \/ new[1].score > old[1].score
          /\ old # << >> => new # << >> /\ new[1].score >= old[1].score
      ]_vars

\* a replay has finished below the stored best result, which is kept
C39_Witness ==
    /\ status = "Finished"
    /\ Stored # << >>
    /\ emitted.result[1].score < Stored[1].score

----------------------------------------------------------------------------
(* Properties of the onset detector *)

Audible(tr, i) == tr.low[i + 1] > 100 \/ tr.full[i + 1] > 100

\* C26: no onset is declared at a frame where neither band's RMS energy
\* exceeds the silence floor (0.01); audio that is silent or entirely at or
\* below the floor yields an empty onset list, and the call returns.
C26_SilenceFloor ==
    /\ dsp.phase = "loop" =>
          \A k \in 1 .. Len(dsp.loop.onsets) :
              Audible(dsp.track, dsp.loop.onsets[k].time)
    /\ \A r \in 1 .. Len(dsp.results) :
          /\ \A k \in 1 .. Len(dsp.results[r]) :
                Audible(dsp.track, dsp.results[r][k].time)
          /\ (\A i \in 0 .. Len(dsp.track.full) - 1 : ~Audible(dsp.track, i))
                => Len(dsp.results[r]) = 0

\* a track with a frame at the floor among silent frames has been analysed:
\* no onset
C26_Witness ==
    /\ Len(dsp.results) >= 1
    /\ Len(dsp.track.full) = MaxFrames
    /\ dsp.track.full[1] = 0 /\ dsp.track.full[2] = 100
    /\ \A i \in 0 .. Len(dsp.track.full) - 1 : ~Audible(dsp.track, i)
    /\ Len(dsp.results[1]) = 0

\* C33: the onset list of the detector is strictly increasing in time and
\* any two consecutive onsets are at least 0.05 s (3 frames at the 60 Hz
\* frame rate) apart; a frame closer than that to the last accepted onset
\* is never an onset, even if it exceeds both thresholds.
C33_MinGap ==
    /\ dsp.phase = "loop" =>
          /\ \A k \in 1 .. Len(dsp.loop.onsets) - 1 :
                dsp.loop.onsets[k + 1].time - dsp.loop.onsets[k].time >= 3
          /\ Len(dsp.loop.onsets) > 0 =>
                /\ dsp.loop.lastOnsetTime = dsp.loop.onsets[Len(dsp.loop.onsets)].time
                /\ dsp.loop.lastOnsetTime < dsp.loop.i
    /\ \A r \in 1 .. Len(dsp.results) :
          \A k \in 1 .. Len(dsp.results[r]) - 1 :
              dsp.results[r][k + 1].time - dsp.results[r][k].time >= 3

\* peaks in both bands at frames 1, 3 and 4: the returned onsets are those of
\* frames 1 and 4, the peak of frame 3 being too close to the first
C33_Witness ==
    /\ Len(dsp.results) >= 1
    /\ Len(dsp.track.full) >= 6
    /\ dsp.track.full[2] = 3000 /\ dsp.track.full[4] = 3000
    /\ dsp.track.full[5] = 3000
    /\ isFullHit(dsp.track, 3)
    /\ Len(dsp.results[1]) = 2
    /\ dsp.results[1][1].time = 1 /\ dsp.results[1][2].time = 4

\* the detected onsets of the running loop and of the returned lists
Detected ==
    {dsp.loop.onsets[k] : k \in 1 .. Len(dsp.loop.onsets)}
        \cup UNION {{dsp.results[r][k] : k \in 1 .. Len(dsp.results[r])} :
                        r \in 1 .. Len(dsp.results)}

\* C34 as stated: for every detected onset, isLowFreq is true exactly when
\* the low-band energy-to-threshold ratio exceeds the full-band ratio at
\* that frame.
C34_LowFreq ==
    \A o \in Detected : o.isLowFreq <=> LowDominant(dsp.track, o.time)

\* C34, amended: for every detected onset, isLowFreq is true exactly when
\* the low-band energy is above the silence floor and the low-band ratio
\* exceeds the full-band ratio at that frame.
C34_LowFreqAboveFloor ==
    \A o \in Detected :
        o.isLowFreq <=> /\ dsp.track.low[o.time + 1] > 100
                        /\ LowDominant(dsp.track, o.time)

\* a track with one peak, in both bands, over a full band that is never
\* silent: the returned onset is low-band; and its length is the longest
C34_Witness ==
    /\ Len(dsp.results) >= 1
    /\ Len(dsp.track.full) = MaxFrames
    /\ dsp.track.full[1] = 200 /\ dsp.track.full[2] = 200
    /\ dsp.track.full[3] = 3000 /\ dsp.track.low[3] = 3000
    /\ Len(dsp.results[1]) = 1
    /\ dsp.results[1][1] = [time |-> 2, energy |-> ENERGY_CAP, isLowFreq |-> TRUE]

====
